---- MODULE Spec2Model ----
(***************************************************************************)
(* Verification model of the ohmframe-drawer geometry pipeline:            *)
(* edge extraction, visibility classification, projection, datum           *)
(* selection, dimension generation and dimension de-duplication.           *)
(*                                                                         *)
(* Numbers.  A JavaScript number is modelled as an exact rational          *)
(* [n |-> numerator, d |-> denominator] in lowest terms with d > 0.        *)
(* d = 0 encodes the non-finite values: n = 1 is Infinity, n = -1 is       *)
(* -Infinity and n = 0 is NaN.  Arithmetic is exact; the input sets are    *)
(* chosen so that every square root taken is rational.                     *)
(*                                                                         *)
(* Strings.  A string is a sequence of character codes, so that the        *)
(* formatting done by toFixed and the string comparison of edge keys are   *)
(* computed character by character.                                        *)
(***************************************************************************)
EXTENDS Integers, Sequences, FiniteSets

VARIABLES
  meshData,    \* the mesh of the loaded part: flat positions and indices
  bbox,        \* the bounding box of the loaded part
  dimsIn,      \* a list of dimensions handed to the Dedup/Filter stage
  pc,          \* the operation that ran last
  edges3D,     \* result of extractEdges
  classified,  \* the last call of classifyEdge: edge, view direction, result
  view,        \* result of generateProjectedView
  datums,      \* result of selectDatums
  dimensions,  \* the working list of dimensions
  maxPerView,  \* the cap handed to filterEssentialDimensions
  projectedViews, \* the views handed to optimizeDimensionLayout
  layoutConfig, \* the config handed to optimizeDimensionLayout
  layoutIn,    \* the dimensions handed to optimizeDimensionLayout
  layoutDims,  \* the layout dimensions of simulatedAnnealing
  temperature, \* temperature in simulatedAnnealing
  iter,        \* iter in simulatedAnnealing: the sweeps completed
  moves,       \* j in simulatedAnnealing: the calls of mcMove in this sweep
  picks,       \* how often mcMove selected each layout dimension in this sweep
  accepted,    \* what the last call of mcMove returned
  energy,      \* what a call of calculateEnergy on its own returned, and for which index
  placeCandidates, \* the candidates handed to placeDimensions
  placeOptions, \* the options handed to placeDimensions
  corrections, \* the corrections handed to applyCorrections
  planarFaces, \* what extractPlanarFaces returned
  loopConfig, \* maxIterations and acceptableScore handed to reviewAndCorrectLoop
  loopDims, \* currentDimensions in reviewAndCorrectLoop
  loopSvg, \* currentSvg in reviewAndCorrectLoop
  reviews, \* reviews in reviewAndCorrectLoop
  iteration, \* iteration in reviewAndCorrectLoop
  loopResult, \* what reviewAndCorrectLoop returned
  reviewEnabled, \* enableReview && apiKey in handleGenerateDrawing
  reviewIteration, \* the React state reviewIteration
  capturedIteration, \* reviewIteration as the running callback runVisionReview captured it
  rounds, \* the calls of runVisionReview during this generation
  isReviewing, \* the React state isReviewing
  isGenerating, \* the React state isGenerating
  aiResponse,  \* the reply of the remote service to the request of fetch
  aiResult     \* what generateDimensions or reviewDrawing returned

(* the state of the layout optimizer *)
layoutVars == <<projectedViews, layoutConfig, layoutIn, layoutDims, temperature, iter, moves, picks,
               accepted, energy>>

(* the arguments of a call of placeDimensions on its own *)
placeVars == <<placeCandidates, placeOptions>>

(* the state of the review of a drawing *)
reviewVars == <<corrections, aiResponse, aiResult>>

(* the result of the planar-face clusterer called on its own *)
faceVars == <<planarFaces>>

(* the state of reviewAndCorrectLoop *)
loopVars == <<loopConfig, loopDims, loopSvg, reviews, iteration, loopResult>>

(* the state of the vision review of the App *)
appVars == <<reviewEnabled, reviewIteration, capturedIteration, rounds, isReviewing, isGenerating>>

(* the state of the later stages, left alone by the geometry pipeline *)
stageVars == <<maxPerView, layoutVars, appVars, loopVars, faceVars, placeVars, reviewVars>>

(* the state of the geometry pipeline and of the calls made on their own,  *)
(* left alone by the clean-up stages                                       *)
geomVars == <<meshData, bbox, edges3D, classified, view, datums, appVars, loopVars, faceVars,
              placeVars, reviewVars>>

vars == <<meshData, bbox, dimsIn, pc, edges3D, classified, view, datums, dimensions,
          stageVars>>

----------------------------------------------------------------------------
(* Bounds of the model *)

MaxTris == 3

MaxDims == 3

MaxCap == 2

MaxIterations == 2

MaxCands == 3

MaxCorrections == 2

(* the largest maxIterations handed to reviewAndCorrectLoop *)
MaxLoop == 3

(* the most rounds of runVisionReview that are followed *)
MaxRounds == 5

(* the most edges of a projected view handed to calculateFeatureDimensions *)
MaxEdges == 4

(* the longest response text of the remote service, in tokens *)
MaxText == 3

----------------------------------------------------------------------------
(* Exact arithmetic on numbers *)

Abs(i) == IF i < 0 THEN -i ELSE i

Sign(i) == IF i < 0 THEN -1 ELSE IF i > 0 THEN 1 ELSE 0

RECURSIVE GCD(_, _)
GCD(a, b) == IF b = 0 THEN a ELSE GCD(b, a % b)

Num(n, d) ==
  IF d = 0 THEN [n |-> Sign(n), d |-> 0]
  ELSE LET g == GCD(Abs(n), Abs(d))
           s == IF d < 0 THEN -1 ELSE 1
       IN  [n |-> s * (n \div g), d |-> s * (d \div g)]

I(i) == [n |-> i, d |-> 1]

Infinity == [n |-> 1, d |-> 0]

NaN == [n |-> 0, d |-> 0]

IsNaN(a) == a.n = 0 /\ a.d = 0

Neg(a) == [n |-> -a.n, d |-> a.d]

Add(a, b) ==
  IF a.d = 0 /\ b.d = 0
  THEN (IF a.n = b.n THEN a ELSE NaN)
  ELSE Num(a.n * b.d + b.n * a.d, a.d * b.d)

Sub(a, b) == Add(a, Neg(b))

Mul(a, b) == Num(a.n * b.n, a.d * b.d)

Div(a, b) == Num(a.n * b.d, a.d * b.n)

Lt(a, b) ==
  /\ ~IsNaN(a)
  /\ ~IsNaN(b)
  /\ IF a.d = 0 /\ b.d = 0 THEN a.n < b.n ELSE a.n * b.d < b.n * a.d

Le(a, b) ==
  /\ ~IsNaN(a)
  /\ ~IsNaN(b)
  /\ IF a.d = 0 /\ b.d = 0 THEN a.n <= b.n ELSE a.n * b.d <= b.n * a.d

Gt(a, b) == Lt(b, a)

Ge(a, b) == Le(b, a)

MathAbs(a) == [n |-> Abs(a.n), d |-> a.d]

MathMin(a, b) == IF IsNaN(a) \/ IsNaN(b) THEN NaN ELSE IF Lt(b, a) THEN b ELSE a

MathMax(a, b) == IF IsNaN(a) \/ IsNaN(b) THEN NaN ELSE IF Gt(b, a) THEN b ELSE a

(* exact integer square root; defined on perfect squares only *)
Isqrt(k) == CHOOSE r \in 0..k : r * r = k

MathSqrt(a) ==
  IF a.d = 0 THEN (IF a.n = 1 THEN Infinity ELSE NaN)
  ELSE IF a.n < 0 THEN NaN
  ELSE Num(Isqrt(a.n), Isqrt(a.d))

RECURSIVE Pow10(_)
Pow10(k) == IF k = 0 THEN 1 ELSE 10 * Pow10(k - 1)

----------------------------------------------------------------------------
(* Strings as sequences of character codes *)

(* "," and "|", the separators of the edge key *)
ChComma == 44

ChBar == 124

RECURSIVE DecDigits(_)
DecDigits(k) ==
  IF k < 10 THEN <<48 + k>>
  ELSE DecDigits(k \div 10) \o <<48 + (k % 10)>>

RECURSIVE FracDigits(_, _)
FracDigits(f, count) ==
  IF count = 0 THEN <<>>
  ELSE FracDigits(f \div 10, count - 1) \o <<48 + (f % 10)>>

(* Number.prototype.toFixed(digits): the sign "-" (45) is written when   *)
(* x < 0, the magnitude is rounded to the nearest multiple of            *)
(* 10^-digits, ties to the larger one, and printed with "." (46) and     *)
(* the digits "0".."9" (48..57).                                         *)
toFixed(x, digits) ==
  IF IsNaN(x) THEN <<78, 97, 78>>
  ELSE IF x.d = 0
  THEN (IF x.n < 0 THEN <<45>> ELSE <<>>)
       \o <<73, 110, 102, 105, 110, 105, 116, 121>>
  ELSE LET P  == Pow10(digits)
           g  == GCD(P, x.d)
           Pr == P \div g
           dr == x.d \div g
           n  == (2 * Abs(x.n) * Pr + dr) \div (2 * dr)
       IN  (IF x.n < 0 THEN <<45>> ELSE <<>>)
           \o DecDigits(n \div P)
           \o (IF digits > 0 THEN <<46>> \o FracDigits(n % P, digits)
               ELSE <<>>)

(* the < operator on strings: lexicographic order on code units *)
RECURSIVE StrLessFrom(_, _, _)
StrLessFrom(s, t, i) ==
  IF i > Len(s) THEN i <= Len(t)
  ELSE IF i > Len(t) THEN FALSE
  ELSE IF s[i] # t[i] THEN s[i] < t[i]
  ELSE StrLessFrom(s, t, i + 1)

StrLess(s, t) == StrLessFrom(s, t, 1)

----------------------------------------------------------------------------
(* Vector math utilities *)

vec3Dot(a, b) == Add(Add(Mul(a[1], b[1]), Mul(a[2], b[2])), Mul(a[3], b[3]))

vec3Cross(a, b) ==
  << Sub(Mul(a[2], b[3]), Mul(a[3], b[2])),
     Sub(Mul(a[3], b[1]), Mul(a[1], b[3])),
     Sub(Mul(a[1], b[2]), Mul(a[2], b[1])) >>

vec3Normalize(v) ==
  LET len == MathSqrt(Add(Add(Mul(v[1], v[1]), Mul(v[2], v[2])), Mul(v[3], v[3])))
  IN  IF len = I(0) THEN <<I(0), I(0), I(0)>>
      ELSE <<Div(v[1], len), Div(v[2], len), Div(v[3], len)>>

vec3Sub(a, b) == <<Sub(a[1], b[1]), Sub(a[2], b[2]), Sub(a[3], b[3])>>

----------------------------------------------------------------------------
(* Mesh access: positions and indices are flat, zero-based arrays *)

At(arr, i) == arr[i + 1]

Vertex(positions, i) ==
  <<At(positions, i * 3), At(positions, i * 3 + 1), At(positions, i * 3 + 2)>>

NumTriangles(mesh) == Len(mesh.indices) \div 3

(* the three corners of triangle number t *)
TriangleVertices(mesh, t) ==
  << Vertex(mesh.positions, At(mesh.indices, 3 * t)),
     Vertex(mesh.positions, At(mesh.indices, 3 * t + 1)),
     Vertex(mesh.positions, At(mesh.indices, 3 * t + 2)) >>

----------------------------------------------------------------------------
(* Edge Extractor *)

PointKey(a) ==
  toFixed(a[1], 6) \o <<ChComma>> \o toFixed(a[2], 6) \o <<ChComma>> \o toFixed(a[3], 6)

EdgeKey(a, b) ==
  LET keyA == PointKey(a)
      keyB == PointKey(b)
  IN  IF StrLess(keyA, keyB) THEN keyA \o <<ChBar>> \o keyB
      ELSE keyB \o <<ChBar>> \o keyA

(* the three sides of triangle t, in the order the loop visits them *)
TriangleSides(mesh, t) ==
  LET v == TriangleVertices(mesh, t)
  IN  << [a |-> v[1], b |-> v[2], face |-> t],
         [a |-> v[2], b |-> v[3], face |-> t],
         [a |-> v[3], b |-> v[1], face |-> t] >>

(* one iteration of the inner loop: edgeMap is the Map in insertion order *)
AddSide(edgeMap, side) ==
  LET edgeKey == EdgeKey(side.a, side.b)
      hits    == {i \in 1..Len(edgeMap) : edgeMap[i].key = edgeKey}
  IN  IF hits # {}
      THEN LET i == CHOOSE j \in hits : TRUE
           IN  [edgeMap EXCEPT ![i].faces = Append(@, side.face)]
      ELSE Append(edgeMap, [key |-> edgeKey, v1 |-> side.a, v2 |-> side.b,
                            faces |-> <<side.face>>])

RECURSIVE EdgeMapAfter(_, _)
EdgeMapAfter(mesh, t) ==
  IF t = 0 THEN <<>>
  ELSE LET s == TriangleSides(mesh, t - 1)
       IN  AddSide(AddSide(AddSide(EdgeMapAfter(mesh, t - 1), s[1]), s[2]), s[3])

(* Array.from(edgeMap.values()) *)
MapValues(edgeMap) ==
  [i \in 1..Len(edgeMap) |->
     [v1 |-> edgeMap[i].v1, v2 |-> edgeMap[i].v2, faces |-> edgeMap[i].faces]]

extractEdges(mesh) == MapValues(EdgeMapAfter(mesh, NumTriangles(mesh)))

----------------------------------------------------------------------------
(* Projector: canonical views *)

ViewTypes == {"front", "back", "top", "bottom", "right", "left"}

VIEW_DIRECTIONS ==
  [ front  |-> <<I(0), I(0), I(-1)>>,
    back   |-> <<I(0), I(0), I(1)>>,
    top    |-> <<I(0), I(-1), I(0)>>,
    bottom |-> <<I(0), I(1), I(0)>>,
    right  |-> <<I(-1), I(0), I(0)>>,
    left   |-> <<I(1), I(0), I(0)>> ]

(* variant of VIEW_UP in which the top view has the up vector of the front view *)
VIEW_UP_TopAsFront ==
  [ front  |-> <<I(0), I(1), I(0)>>,
    back   |-> <<I(0), I(1), I(0)>>,
    top    |-> <<I(0), I(1), I(0)>>,
    bottom |-> <<I(0), I(0), I(1)>>,
    right  |-> <<I(0), I(1), I(0)>>,
    left   |-> <<I(0), I(1), I(0)>> ]

VIEW_UP ==
  [ front  |-> <<I(0), I(1), I(0)>>,
    back   |-> <<I(0), I(1), I(0)>>,
    top    |-> <<I(0), I(0), I(-1)>>,
    bottom |-> <<I(0), I(0), I(1)>>,
    right  |-> <<I(0), I(1), I(0)>>,
    left   |-> <<I(0), I(1), I(0)>> ]

(* the basis built inside projectPoint *)
ProjRight(viewDir, upDir) == vec3Normalize(vec3Cross(upDir, viewDir))

ProjUp(viewDir, upDir) == vec3Normalize(vec3Cross(viewDir, ProjRight(viewDir, upDir)))

projectPoint(point, viewDir, upDir) ==
  << vec3Dot(point, ProjRight(viewDir, upDir)),
     vec3Dot(point, ProjUp(viewDir, upDir)) >>

(* vec2Distance(a, b) < r, compared on the squares (both sides are >= 0) *)
vec2DistanceBelow(a, b, r) ==
  Lt(Add(Mul(Sub(a[1], b[1]), Sub(a[1], b[1])),
         Mul(Sub(a[2], b[2]), Sub(a[2], b[2]))),
     Mul(r, r))

----------------------------------------------------------------------------
(* Visibility Classifier *)

calculateFaceNormal(v0, v1, v2) ==
  vec3Normalize(vec3Cross(vec3Sub(v1, v0), vec3Sub(v2, v0)))

SharpThreshold == Num(9, 10)

(* variant of IsSharpEdge with the comparison turned around *)
IsSharpEdgeAbove(faceDot) == Gt(faceDot, SharpThreshold)

IsSharpEdge(faceDot) == Lt(faceDot, SharpThreshold)

(* variant of IsSilhouettePair that tests one of the two orders only *)
IsSilhouettePairOneWay(dot1, dot2) == Gt(dot1, I(0)) /\ Le(dot2, I(0))

(* one face toward the viewer, one away *)
IsSilhouettePair(dot1, dot2) ==
  (Gt(dot1, I(0)) /\ Le(dot2, I(0))) \/ (Le(dot1, I(0)) /\ Gt(dot2, I(0)))

(* the normal of triangle number t, from its three corners *)
FaceNormal(mesh, t) ==
  LET f == TriangleVertices(mesh, t) IN calculateFaceNormal(f[1], f[2], f[3])

(* the decision of classifyEdge on the normals of the two adjacent triangles *)
classifyByNormals(n1, n2, viewDir) ==
  LET dot1 == vec3Dot(n1, viewDir)
      dot2 == vec3Dot(n2, viewDir)
      faceDot == vec3Dot(n1, n2)
      isSharpEdge == IsSharpEdge(faceDot)
  IN  IF IsSilhouettePair(dot1, dot2) THEN "silhouette"
      ELSE IF Gt(dot1, I(0)) /\ Gt(dot2, I(0))
      THEN (IF isSharpEdge THEN "visible" ELSE "internal")
      ELSE IF Le(dot1, I(0)) /\ Le(dot2, I(0))
      THEN (IF isSharpEdge THEN "hidden" ELSE "internal")
      ELSE "internal"

(* the part of classifyEdge that reads the two adjacent triangles *)
classifyTwoFaces(edge, mesh, viewDir) ==
  classifyByNormals(FaceNormal(mesh, edge.faces[1]), FaceNormal(mesh, edge.faces[2]),
                    viewDir)

(* variant of classifyEdge without the return for non-manifold edges *)
classifyEdgeFirstTwoFaces(edge, mesh, viewDir) ==
  IF Len(edge.faces) = 1 THEN "silhouette"
  ELSE classifyTwoFaces(edge, mesh, viewDir)

classifyEdge(edge, mesh, viewDir) ==
  IF Len(edge.faces) = 1 THEN "silhouette"
  ELSE IF Len(edge.faces) # 2 THEN "internal"
  ELSE classifyTwoFaces(edge, mesh, viewDir)

----------------------------------------------------------------------------
(* Projector: one projected view *)

ZeroLength == Num(1, 1000)

ReferenceSize == 100

EmptyBounds ==
  [minX |-> Infinity, minY |-> Infinity, maxX |-> Neg(Infinity), maxY |-> Neg(Infinity)]

(* variant of AddProjected that pushes internal edges as visible ones *)
AddProjectedWithInternal(acc, classification, start, end) ==
  IF vec2DistanceBelow(start, end, ZeroLength) THEN acc
  ELSE [ edges  |-> Append(acc.edges,
                      [start |-> start, end |-> end,
                       type |-> IF classification = "hidden" THEN "hidden"
                                ELSE "visible"]),
         bounds |-> [ minX |-> MathMin(MathMin(acc.bounds.minX, start[1]), end[1]),
                      minY |-> MathMin(MathMin(acc.bounds.minY, start[2]), end[2]),
                      maxX |-> MathMax(MathMax(acc.bounds.maxX, start[1]), end[1]),
                      maxY |-> MathMax(MathMax(acc.bounds.maxY, start[2]), end[2]) ] ]

(* the body of the loop over edges3D once the edge is classified and its   *)
(* end points are projected: acc holds edges2D and the bounds              *)
AddProjected(acc, classification, start, end) ==
  IF classification = "internal" THEN acc
  ELSE IF vec2DistanceBelow(start, end, ZeroLength) THEN acc
  ELSE [ edges  |-> Append(acc.edges,
                      [start |-> start, end |-> end,
                       type |-> IF classification = "hidden" THEN "hidden"
                                ELSE "visible"]),
         bounds |-> [ minX |-> MathMin(MathMin(acc.bounds.minX, start[1]), end[1]),
                      minY |-> MathMin(MathMin(acc.bounds.minY, start[2]), end[2]),
                      maxX |-> MathMax(MathMax(acc.bounds.maxX, start[1]), end[1]),
                      maxY |-> MathMax(MathMax(acc.bounds.maxY, start[2]), end[2]) ] ]

(* one iteration of the loop over edges3D *)
ProjectEdge(acc, edge, mesh, viewDir, upDir) ==
  AddProjected(acc, classifyEdge(edge, mesh, viewDir),
               projectPoint(edge.v1, viewDir, upDir),
               projectPoint(edge.v2, viewDir, upDir))

RECURSIVE ProjectEdges(_, _, _, _, _)
ProjectEdges(es, k, mesh, viewDir, upDir) ==
  IF k = 0 THEN [edges |-> <<>>, bounds |-> EmptyBounds]
  ELSE ProjectEdge(ProjectEdges(es, k - 1, mesh, viewDir, upDir), es[k], mesh, viewDir, upDir)

detectCircles(edges) == <<>>

(* the whole loop over edges3D *)
ProjectAll(es, mesh, viewDir, upDir) ==
  ProjectEdges(es, Len(es), mesh, viewDir, upDir)

(* the view returned for the projected edges and their bounds *)
ViewOf(viewType, acc) ==
  LET width   == Sub(acc.bounds.maxX, acc.bounds.minX)
      height  == Sub(acc.bounds.maxY, acc.bounds.minY)
      maxDim  == MathMax(width, height)
  IN  [ type    |-> viewType,
        edges   |-> acc.edges,
        circles |-> detectCircles(acc.edges),
        bounds  |-> acc.bounds,
        scale   |-> IF Gt(maxDim, I(0)) THEN Div(I(ReferenceSize), maxDim) ELSE I(1) ]

generateProjectedView(mesh, viewType) ==
  ViewOf(viewType,
         ProjectAll(extractEdges(mesh), mesh, VIEW_DIRECTIONS[viewType], VIEW_UP[viewType]))

----------------------------------------------------------------------------
(* Planar-Face Clusterer *)

NORMAL_TOLERANCE == Num(98, 100)

CoplanarTolerance == I(1)

(* Set.add on a Set kept in insertion order *)
SetAdd(s, x) == IF \E i \in 1..Len(s) : s[i] = x THEN s ELSE Append(s, x)

(* the cross product of the two sides of a triangle that leave v0 *)
TriangleCross(v0, v1, v2) == vec3Cross(vec3Sub(v1, v0), vec3Sub(v2, v0))

(* 0.5 * Math.sqrt(cross.x ** 2 + cross.y ** 2 + cross.z ** 2) *)
TriangleArea(cross) ==
  Mul(Num(1, 2),
      MathSqrt(Add(Add(Mul(cross[1], cross[1]), Mul(cross[2], cross[2])),
                   Mul(cross[3], cross[3]))))

TriangleCenter(v0, v1, v2) ==
  << Div(Add(Add(v0[1], v1[1]), v2[1]), I(3)),
     Div(Add(Add(v0[2], v1[2]), v2[2]), I(3)),
     Div(Add(Add(v0[3], v1[3]), v2[3]), I(3)) >>

(* the second half of the loop body: the triangle joins the first face     *)
(* group it matches, or starts a new one                                   *)
GroupTriangle(faceGroups, triIndex, i0, i1, i2, normal, area, center) ==
  LET Matches(face) ==
        /\ Gt(MathAbs(vec3Dot(normal, face.normal)), NORMAL_TOLERANCE)
        /\ Lt(MathAbs(Sub(vec3Dot(center, normal), vec3Dot(face.center, face.normal))),
              CoplanarTolerance)
      hits == {k \in 1..Len(faceGroups) : Matches(faceGroups[k])}
  IN  IF hits # {}
      THEN LET k == CHOOSE j \in hits : \A h \in hits : j <= h
               face == faceGroups[k]
               totalTris == Len(face.triangles) + 1
               Avg(c, x) == Div(Add(Mul(c, I(totalTris - 1)), x), I(totalTris))
           IN  [faceGroups EXCEPT ![k] =
                  [ normal    |-> face.normal,
                    center    |-> << Avg(face.center[1], center[1]),
                                     Avg(face.center[2], center[2]),
                                     Avg(face.center[3], center[3]) >>,
                    area      |-> Add(face.area, area),
                    triangles |-> Append(face.triangles, triIndex),
                    vertices  |-> SetAdd(SetAdd(SetAdd(face.vertices, i0), i1), i2) ]]
      ELSE Append(faceGroups,
                  [ normal    |-> normal,
                    center    |-> center,
                    area      |-> area,
                    triangles |-> <<triIndex>>,
                    vertices  |-> SetAdd(SetAdd(<<i0>>, i1), i2) ])

(* one iteration of the loop over triangles *)
AddTriangle(faceGroups, mesh, triIndex) ==
  LET i0 == At(mesh.indices, 3 * triIndex)
      i1 == At(mesh.indices, 3 * triIndex + 1)
      i2 == At(mesh.indices, 3 * triIndex + 2)
      v0 == Vertex(mesh.positions, i0)
      v1 == Vertex(mesh.positions, i1)
      v2 == Vertex(mesh.positions, i2)
  IN  GroupTriangle(faceGroups, triIndex, i0, i1, i2,
                    vec3Normalize(TriangleCross(v0, v1, v2)),
                    TriangleArea(TriangleCross(v0, v1, v2)),
                    TriangleCenter(v0, v1, v2))

RECURSIVE FaceGroupsAfter(_, _)
FaceGroupsAfter(mesh, t) ==
  IF t = 0 THEN <<>> ELSE AddTriangle(FaceGroupsAfter(mesh, t - 1), mesh, t - 1)

extractPlanarFaces(mesh) == FaceGroupsAfter(mesh, NumTriangles(mesh))

----------------------------------------------------------------------------
(* Datum Selector *)

PerpTolerance == Num(1, 10)

(* variant of arePerpendicular that compares the signed dot product *)
arePerpendicularSigned(n1, n2, tolerance) == Lt(vec3Dot(n1, n2), tolerance)

arePerpendicular(n1, n2, tolerance) == Lt(MathAbs(vec3Dot(n1, n2)), tolerance)

(* faces.sort((a, b) => b.area - a.area): a stable sort, largest area first *)
InsertByArea(sorted, f) ==
  LET smaller == {k \in 1..Len(sorted) : Lt(sorted[k].area, f.area)}
  IN  IF smaller = {} THEN Append(sorted, f)
      ELSE LET k == CHOOSE j \in smaller : \A h \in smaller : j <= h
           IN  SubSeq(sorted, 1, k - 1) \o <<f>> \o SubSeq(sorted, k, Len(sorted))

RECURSIVE SortByArea(_, _)
SortByArea(faces, k) ==
  IF k = 0 THEN <<>> ELSE InsertByArea(SortByArea(faces, k - 1), faces[k])

AsDatum(id, face) ==
  [ id |-> id, type |-> "planar", normal |-> face.normal, center |-> face.center,
    area |-> face.area, vertices |-> face.vertices ]

(* least index in 2..Len(faces) whose face satisfies Ok, 0 when the loop   *)
(* over faces.slice(1) ends without a break                                 *)
FirstAfterA(faces, Ok(_)) ==
  LET hits == {k \in 2..Len(faces) : Ok(faces[k])}
  IN  IF hits = {} THEN 0 ELSE CHOOSE j \in hits : \A h \in hits : j <= h

(* the body of selectDatums after faces.sort *)
DatumsOfSorted(faces) ==
  LET datumA == faces[1]
      PerpA(face) == arePerpendicular(face.normal, datumA.normal, PerpTolerance)
      b      == FirstAfterA(faces, PerpA)
      withB  == IF b = 0 THEN <<AsDatum("A", datumA)>>
                ELSE <<AsDatum("A", datumA), AsDatum("B", faces[b])>>
  IN  IF Len(withB) >= 2
      THEN LET datumB == withB[2]
               PerpAB(face) ==
                 /\ arePerpendicular(face.normal, datumA.normal, PerpTolerance)
                 /\ arePerpendicular(face.normal, datumB.normal, PerpTolerance)
               c == FirstAfterA(faces, PerpAB)
           IN  IF c = 0 THEN withB ELSE Append(withB, AsDatum("C", faces[c]))
      ELSE withB

(* the body of selectDatums after extractPlanarFaces *)
DatumsOfFaces(faces) ==
  IF Len(faces) = 0 THEN <<>> ELSE DatumsOfSorted(SortByArea(faces, Len(faces)))

selectDatums(mesh) == DatumsOfFaces(extractPlanarFaces(mesh))

----------------------------------------------------------------------------
(* Dimension Candidate Generator *)

DEFAULT_OPTIONS ==
  [ unit |-> "mm", extensionGap |-> Num(3, 2), extensionOverhang |-> I(2),
    dimensionOffset |-> I(10), stackingOffset |-> I(8), minDimensionSpacing |-> I(5) ]

OverallPriority == 100

FeaturePriority == 50

DatumPriority == 90

(* variant of viewDimensions in which the top view has the height of the   *)
(* front view                                                              *)
viewDimensionsTopAsFront(box) ==
  [ front     |-> [width |-> box.width, height |-> box.height, wDir |-> "X", hDir |-> "Y"],
    top       |-> [width |-> box.width, height |-> box.height, wDir |-> "X", hDir |-> "Z"],
    right     |-> [width |-> box.depth, height |-> box.height, wDir |-> "Z", hDir |-> "Y"],
    isometric |-> [width |-> box.width, height |-> box.height, wDir |-> "X", hDir |-> "Y"],
    section   |-> [width |-> box.width, height |-> box.height, wDir |-> "X", hDir |-> "Y"] ]

viewDimensions(box) ==
  [ front     |-> [width |-> box.width, height |-> box.height, wDir |-> "X", hDir |-> "Y"],
    top       |-> [width |-> box.width, height |-> box.depth,  wDir |-> "X", hDir |-> "Z"],
    right     |-> [width |-> box.depth, height |-> box.height, wDir |-> "Z", hDir |-> "Y"],
    isometric |-> [width |-> box.width, height |-> box.height, wDir |-> "X", hDir |-> "Y"],
    section   |-> [width |-> box.width, height |-> box.height, wDir |-> "X", hDir |-> "Y"] ]

calculateOverallDimensions(box, viewType) ==
  IF viewType \notin DOMAIN viewDimensions(box) THEN <<>>
  ELSE LET dims == viewDimensions(box)[viewType]
       IN  << [ type |-> "overall", value |-> dims.width, direction |-> "horizontal",
                viewType |-> viewType,
                startPoint |-> <<I(0), I(0)>>, endPoint |-> <<dims.width, I(0)>>,
                priority |-> OverallPriority,
                label |-> <<"Overall Width", dims.wDir>> ],
              [ type |-> "overall", value |-> dims.height, direction |-> "vertical",
                viewType |-> viewType,
                startPoint |-> <<dims.width, I(0)>>, endPoint |-> <<dims.width, dims.height>>,
                priority |-> OverallPriority,
                label |-> <<"Overall Height", dims.hDir>> ] >>

AxisTolerance == Num(1, 10)

StepThreshold == I(1)

StepAnchorGap == I(5)

(* variant of EdgeLevels that takes the levels of hidden edges as well *)
EdgeLevelsOfAllTypes(edges, c) ==
  { edges[i].start[c] : i \in { j \in 1..Len(edges) :
        Lt(MathAbs(Sub(edges[j].start[c], edges[j].end[c])), AxisTolerance) } }

(* the coordinate (1 = x, 2 = y) of the start points of the visible edges  *)
(* that are nearly constant in coordinate c                                *)
EdgeLevels(edges, c) ==
  { edges[i].start[c] : i \in { j \in 1..Len(edges) :
        /\ Lt(MathAbs(Sub(edges[j].start[c], edges[j].end[c])), AxisTolerance)
        /\ edges[j].type = "visible" } }

(* [...new Set(xs)].sort((a, b) => a - b) *)
RECURSIVE SortAscending(_)
SortAscending(S) ==
  IF S = {} THEN <<>>
  ELSE LET m == CHOOSE x \in S : \A y \in S : Le(x, y)
       IN  <<m>> \o SortAscending(S \ {m})

(* the concatenation f[1] \o ... \o f[n] *)
RECURSIVE Collect(_, _)
Collect(f, n) ==
  IF n = 0 THEN <<>> ELSE Collect(f, n - 1) \o f[n]

calculateFeatureDimensions(pview) ==
  LET bounds   == pview.bounds
      uniqueYs == SortAscending(EdgeLevels(pview.edges, 2))
      uniqueXs == SortAscending(EdgeLevels(pview.edges, 1))
      heights  == [ i \in 1..(Len(uniqueYs) - 1) |->
                     LET stepHeight == MathAbs(Sub(uniqueYs[i + 1], uniqueYs[i]))
                     IN  IF Gt(stepHeight, StepThreshold)
                         THEN << [ type |-> "feature", value |-> stepHeight,
                                   direction |-> "vertical", viewType |-> pview.type,
                                   startPoint |-> <<Add(bounds.maxX, StepAnchorGap), uniqueYs[i]>>,
                                   endPoint |-> <<Add(bounds.maxX, StepAnchorGap), uniqueYs[i + 1]>>,
                                   priority |-> FeaturePriority,
                                   label |-> <<"Step Height", i>> ] >>
                         ELSE <<>> ]
      widths   == [ i \in 1..(Len(uniqueXs) - 1) |->
                     LET stepWidth == MathAbs(Sub(uniqueXs[i + 1], uniqueXs[i]))
                     IN  IF Gt(stepWidth, StepThreshold)
                         THEN << [ type |-> "feature", value |-> stepWidth,
                                   direction |-> "horizontal", viewType |-> pview.type,
                                   startPoint |-> <<uniqueXs[i], Sub(bounds.minY, StepAnchorGap)>>,
                                   endPoint |-> <<uniqueXs[i + 1], Sub(bounds.minY, StepAnchorGap)>>,
                                   priority |-> FeaturePriority,
                                   label |-> <<"Step Width", i>> ] >>
                         ELSE <<>> ]
  IN  Collect(heights, Len(heights)) \o Collect(widths, Len(widths))

calculateDatumReferenceDimensions(pview, ds) ==
  IF Len(ds) = 0 THEN <<>>
  ELSE LET as == {i \in 1..Len(ds) : ds[i].id = "A"}
       IN  IF as = {} THEN <<>>
           ELSE LET datumA == ds[CHOOSE i \in as : \A j \in as : i <= j]
                    normalDir == datumA.normal
                IN  << [ type |-> "datum-reference", value |-> I(0),
                         direction |-> IF Gt(MathAbs(normalDir[2]), MathAbs(normalDir[1]))
                                       THEN "horizontal" ELSE "vertical",
                         viewType |-> pview.type,
                         startPoint |-> <<datumA.center[1], datumA.center[2]>>,
                         endPoint |-> <<datumA.center[1], datumA.center[2]>>,
                         priority |-> DatumPriority,
                         label |-> <<"DATUM A", "">> ] >>

----------------------------------------------------------------------------
(* Dimension Placer *)

TextGap == I(3)

(* variant of InsertByPriority that keeps the input order *)
InsertAtEnd(sorted, c) == Append(sorted, c)

(* [...candidates].sort((a, b) => b.priority - a.priority): stable *)
InsertByPriority(sorted, c) ==
  LET lower == {k \in 1..Len(sorted) : sorted[k].priority < c.priority}
  IN  IF lower = {} THEN Append(sorted, c)
      ELSE LET k == CHOOSE j \in lower : \A h \in lower : j <= h
           IN  SubSeq(sorted, 1, k - 1) \o <<c>> \o SubSeq(sorted, k, Len(sorted))

RECURSIVE SortByPriority(_, _)
SortByPriority(cs, k) ==
  IF k = 0 THEN <<>> ELSE InsertByPriority(SortByPriority(cs, k - 1), cs[k])

Half(x) == Div(x, I(2))

(* one iteration of the placement loop *)
PlaceCandidate(acc, candidate, viewBounds, opts) ==
  IF candidate.type = "datum-reference" THEN acc
  ELSE LET horizontal == candidate.direction = "horizontal"
           position ==
             IF horizontal
             THEN [ start_x |-> candidate.startPoint[1],
                    start_y |-> Sub(viewBounds.minY, acc.horizontalOffset),
                    end_x   |-> candidate.endPoint[1],
                    end_y   |-> Sub(viewBounds.minY, acc.horizontalOffset),
                    text_x  |-> Half(Add(candidate.startPoint[1], candidate.endPoint[1])),
                    text_y  |-> Sub(Sub(viewBounds.minY, acc.horizontalOffset), TextGap) ]
             ELSE [ start_x |-> Add(viewBounds.maxX, acc.verticalOffset),
                    start_y |-> candidate.startPoint[2],
                    end_x   |-> Add(viewBounds.maxX, acc.verticalOffset),
                    end_y   |-> candidate.endPoint[2],
                    text_x  |-> Add(Add(viewBounds.maxX, acc.verticalOffset), TextGap),
                    text_y  |-> Half(Add(candidate.startPoint[2], candidate.endPoint[2])) ]
           dimension ==
             [ id |-> <<"dim", Len(acc.dimensions) + 1>>,
               type |-> "linear",
               value |-> MathAbs(candidate.value),
               unit |-> opts.unit,
               view |-> candidate.viewType,
               position |-> position,
               label |-> candidate.label,
               is_critical |-> (candidate.type = "overall") ]
       IN  [ dimensions |-> Append(acc.dimensions, dimension),
             horizontalOffset |-> IF horizontal
                                  THEN Add(acc.horizontalOffset, opts.stackingOffset)
                                  ELSE acc.horizontalOffset,
             verticalOffset |-> IF horizontal THEN acc.verticalOffset
                                ELSE Add(acc.verticalOffset, opts.stackingOffset) ]

RECURSIVE PlaceAll(_, _, _, _)
PlaceAll(sorted, k, viewBounds, opts) ==
  IF k = 0
  THEN [ dimensions |-> <<>>, horizontalOffset |-> opts.dimensionOffset,
         verticalOffset |-> opts.dimensionOffset ]
  ELSE PlaceCandidate(PlaceAll(sorted, k - 1, viewBounds, opts), sorted[k], viewBounds, opts)

placeDimensions(candidates, viewBounds, options) ==
  LET opts   == [f \in DOMAIN DEFAULT_OPTIONS |->
                   IF f \in DOMAIN options THEN options[f] ELSE DEFAULT_OPTIONS[f]]
      sorted == SortByPriority(candidates, Len(candidates))
  IN  PlaceAll(sorted, Len(sorted), viewBounds, opts).dimensions

generateViewDimensions(pview, box, ds, options) ==
  placeDimensions(calculateOverallDimensions(box, pview.type)
                    \o calculateFeatureDimensions(pview)
                    \o calculateDatumReferenceDimensions(pview, ds),
                  pview.bounds, options)

----------------------------------------------------------------------------
(* Dedup *)

(* `${dim.view}-${dim.type}-${dim.value.toFixed(1)}`: no view and no type   *)
(* contains "-", so the string is determined by, and determines, the triple *)
DedupKey(dim) == <<dim.view, "-", dim.type, "-", toFixed(dim.value, 1)>>

(* variant of SeeDimension that overwrites the entry of a key seen before *)
SeeDimensionKeepLast(seen, dim) ==
  LET hits == {i \in 1..Len(seen) : seen[i].key = DedupKey(dim)}
  IN  IF hits # {}
      THEN [seen EXCEPT ![CHOOSE i \in hits : TRUE].dim = dim]
      ELSE Append(seen, [key |-> DedupKey(dim), dim |-> dim])

(* one iteration of the loop: seen is the Map in insertion order *)
SeeDimension(seen, dim) ==
  IF \E i \in 1..Len(seen) : seen[i].key = DedupKey(dim) THEN seen
  ELSE Append(seen, [key |-> DedupKey(dim), dim |-> dim])

RECURSIVE SeenAfter(_, _)
SeenAfter(dims, k) ==
  IF k = 0 THEN <<>> ELSE SeeDimension(SeenAfter(dims, k - 1), dims[k])

deduplicateDimensions(dims) ==
  LET seen == SeenAfter(dims, Len(dims))
  IN  [i \in 1..Len(seen) |-> seen[i].dim]

----------------------------------------------------------------------------
(* Filter *)

(* the keys of byView, in the order in which the loop first meets them *)
RECURSIVE ViewsInOrder(_, _)
ViewsInOrder(dims, k) ==
  IF k = 0 THEN <<>>
  ELSE IF \E i \in 1..(k - 1) : dims[i].view = dims[k].view
       THEN ViewsInOrder(dims, k - 1)
       ELSE Append(ViewsInOrder(dims, k - 1), dims[k].view)

(* byView.get(v): the dimensions of view v in input order *)
DimsOfView(dims, v) == SelectSeq(dims, LAMBDA d : d.view = v)

(* variant of CompareRank that orders by value alone *)
CompareValueOnly(a, b) == Lt(b.value, a.value)

(* the comparator of dims.sort returns a negative number: a goes before b *)
CompareRank(a, b) ==
  IF a.is_critical # b.is_critical THEN a.is_critical
  ELSE Lt(Sub(b.value, a.value), I(0))

(* dims.sort(comparator): a stable sort *)
InsertByRank(sorted, c) ==
  LET later == {k \in 1..Len(sorted) : CompareRank(c, sorted[k])}
  IN  IF later = {} THEN Append(sorted, c)
      ELSE LET k == CHOOSE j \in later : \A h \in later : j <= h
           IN  SubSeq(sorted, 1, k - 1) \o <<c>> \o SubSeq(sorted, k, Len(sorted))

RECURSIVE SortByRank(_, _)
SortByRank(dims, k) ==
  IF k = 0 THEN <<>> ELSE InsertByRank(SortByRank(dims, k - 1), dims[k])

(* the end index of slice(0, n) on an array of length len: a negative n   *)
(* counts from the end, and the index is clamped to 0..len                 *)
SliceEnd(len, n) ==
  IF n >= 0 THEN (IF n < len THEN n ELSE len)
  ELSE (IF len + n > 0 THEN len + n ELSE 0)

(* variant of SliceTo that keeps one element more *)
SliceToOneMore(dims, n) == SubSeq(dims, 1, SliceEnd(Len(dims), n + 1))

(* dims.slice(0, n) *)
SliceTo(dims, n) == SubSeq(dims, 1, SliceEnd(Len(dims), n))

(* the loop over byView for the views vs *)
FilterViews(dims, vs, n) ==
  Collect([i \in 1..Len(vs) |->
             SliceTo(SortByRank(DimsOfView(dims, vs[i]),
                                Len(DimsOfView(dims, vs[i]))), n)],
          Len(vs))

filterEssentialDimensions(dims, n) ==
  FilterViews(dims, ViewsInOrder(dims, Len(dims)), n)

----------------------------------------------------------------------------
(* Layout Optimizer *)

DEFAULT_CONFIG ==
  [ minDimensionSpacing |-> I(8), minExtensionGap |-> I(2), dimensionOffset |-> I(12),
    stackingIncrement |-> I(10), maxIterations |-> 2000, initialTemperature |-> I(1),
    coolingRate |-> Num(95, 100) ]

WEIGHTS ==
  [ overlap |-> I(100), geometryOverlap |-> I(50), distance |-> Num(1, 2),
    alignment |-> I(10), spacing |-> I(20), outOfBounds |-> I(200) ]

(* { ...DEFAULT_CONFIG, ...config } *)
FullConfig(config) ==
  [f \in DOMAIN DEFAULT_CONFIG |->
     IF f \in DOMAIN config THEN config[f] ELSE DEFAULT_CONFIG[f]]

getDimensionBounds(dim) ==
  IF dim.type = "horizontal"
  THEN [ x1 |-> MathMin(dim.anchorStart.x, dim.anchorEnd.x),
         y1 |-> Sub(dim.position.y, Half(dim.height)),
         x2 |-> MathMax(dim.anchorStart.x, dim.anchorEnd.x),
         y2 |-> Add(dim.position.y, Half(dim.height)) ]
  ELSE [ x1 |-> Sub(dim.position.x, Half(dim.height)),
         y1 |-> MathMin(dim.anchorStart.y, dim.anchorEnd.y),
         x2 |-> Add(dim.position.x, Half(dim.height)),
         y2 |-> MathMax(dim.anchorStart.y, dim.anchorEnd.y) ]

rectsOverlap(a, b) ==
  Mul(MathMax(I(0), Sub(MathMin(a.x2, b.x2), MathMax(a.x1, b.x1))),
      MathMax(I(0), Sub(MathMin(a.y2, b.y2), MathMax(a.y1, b.y1))))

(* the penalty for two dimensions of one type that are too close *)
SpacingEnergy(spacing, config) ==
  IF Gt(spacing, I(0)) /\ Lt(spacing, config.minDimensionSpacing)
  THEN Mul(Sub(config.minDimensionSpacing, spacing), WEIGHTS.spacing)
  ELSE I(0)

(* what one pass of the loop over the other dimensions adds to energy *)
PairEnergy(dim, other, config) ==
  Add(Mul(rectsOverlap(getDimensionBounds(dim), getDimensionBounds(other)),
          WEIGHTS.overlap),
      IF other.type = dim.type
      THEN SpacingEnergy(IF dim.type = "horizontal"
                         THEN MathAbs(Sub(dim.position.y, other.position.y))
                         ELSE MathAbs(Sub(dim.position.x, other.position.x)), config)
      ELSE I(0))

(* the loop over the other dimensions, up to index k *)
RECURSIVE OthersEnergy(_, _, _, _)
OthersEnergy(index, ldims, k, config) ==
  IF k = 0 THEN I(0)
  ELSE Add(OthersEnergy(index, ldims, k - 1, config),
           IF k = index \/ ldims[k].view # ldims[index].view THEN I(0)
           ELSE PairEnergy(ldims[index], ldims[k], config))

Margin == I(50)

(* the penalty for coordinate p outside lo - margin .. hi + margin *)
OutOfBoundsEnergy(p, lo, hi) ==
  Add(IF Lt(p, Sub(lo, Margin))
      THEN Mul(Sub(Sub(lo, Margin), p), WEIGHTS.outOfBounds) ELSE I(0),
      IF Gt(p, Add(hi, Margin))
      THEN Mul(Sub(Sub(p, hi), Margin), WEIGHTS.outOfBounds) ELSE I(0))

(* the penalty for the distance from the ideal position *)
DistanceEnergy(dim, viewBounds, config) ==
  Mul(MathAbs(Sub(IF dim.type = "horizontal" THEN dim.position.y ELSE dim.position.x,
                  Add(IF dim.type = "horizontal" THEN viewBounds.maxY
                      ELSE viewBounds.maxX,
                      Add(config.dimensionOffset,
                          Mul(I(dim.offset), config.stackingIncrement))))),
      WEIGHTS.distance)

(* index counts from 1 *)
calculateEnergy(index, ldims, viewBounds, config) ==
  Add(Add(OthersEnergy(index, ldims, Len(ldims), config),
          IF ldims[index].type = "horizontal"
          THEN OutOfBoundsEnergy(ldims[index].position.y, viewBounds.minY,
                                 viewBounds.maxY)
          ELSE OutOfBoundsEnergy(ldims[index].position.x, viewBounds.minX,
                                 viewBounds.maxX)),
      DistanceEnergy(ldims[index], viewBounds, config))

(* the array after dim.position.y += moveAmount or dim.position.x += moveAmount *)
Moved(ldims, i, moveAmount) ==
  IF ldims[i].type = "horizontal"
  THEN [ldims EXCEPT ![i].position.y = Add(@, moveAmount)]
  ELSE [ldims EXCEPT ![i].position.x = Add(@, moveAmount)]

DeltaEnergy(ldims, i, moveAmount, viewBounds, config) ==
  Sub(calculateEnergy(i, Moved(ldims, i, moveAmount), viewBounds, config),
      calculateEnergy(i, ldims, viewBounds, config))

(* the largest x, in hundredths, for which Math.exp(-x) is not 0 *)
ExpUnderflow == 74513

(* the values that                                                          *)
(*   deltaEnergy < 0 || Math.random() < Math.exp(-deltaEnergy / temperature) *)
(* can take: Math.random() is in [0, 1), Math.exp(0) is 1, and Math.exp(-x) *)
(* is in (0, 1) for 0 < x up to the underflow and 0 beyond it               *)
Acceptances(deltaEnergy, temp) ==
  IF Le(deltaEnergy, I(0)) THEN {TRUE}
  ELSE IF Gt(Div(deltaEnergy, temp), Num(ExpUnderflow, 100)) THEN {FALSE}
  ELSE {TRUE, FALSE}

(* variant of Restored that restores position.y alone *)
RestoredYOnly(ldims, i, oldX, oldY) ==
  [ldims EXCEPT ![i].position.y = oldY]

(* dim.position.y = oldY; dim.position.x = oldX on the rejected move *)
Restored(ldims, i, oldX, oldY) ==
  [ldims EXCEPT ![i].position.y = oldY, ![i].position.x = oldX]

(* one call of mcMove in which the random numbers select dimension i and   *)
(* moveAmount and decide the acceptance as accept                          *)
mcMove(ldims, i, moveAmount, accept) ==
  IF accept THEN Moved(ldims, i, moveAmount)
  ELSE Restored(Moved(ldims, i, moveAmount), i, ldims[i].position.x,
                ldims[i].position.y)

(* isHorizontal in the first loop of initializeLayout *)
IsHorizontal(dim) ==
  Lt(MathAbs(Sub(dim.position.start_y, dim.position.end_y)),
     MathAbs(Sub(dim.position.start_x, dim.position.end_x)))

GroupKey(dim) == <<dim.view, IF IsHorizontal(dim) THEN "h" ELSE "v">>

(* the keys of byViewAndType, in the order in which the loop first meets them *)
RECURSIVE GroupKeys(_, _)
GroupKeys(dims, k) ==
  IF k = 0 THEN <<>>
  ELSE IF \E i \in 1..(k - 1) : GroupKey(dims[i]) = GroupKey(dims[k])
       THEN GroupKeys(dims, k - 1)
       ELSE Append(GroupKeys(dims, k - 1), GroupKey(dims[k]))

(* byViewAndType.get(key): the dimensions of the group in input order *)
GroupOf(dims, key) == SelectSeq(dims, LAMBDA d : GroupKey(d) = key)

(* the comparator of the sort in initializeLayout is negative *)
StartsBefore(a, b, isHorizontal) ==
  IF isHorizontal THEN Lt(Sub(a.position.start_x, b.position.start_x), I(0))
  ELSE Lt(Sub(a.position.start_y, b.position.start_y), I(0))

(* dims.sort(comparator): a stable sort *)
InsertByStart(sorted, c, isHorizontal) ==
  LET later == {k \in 1..Len(sorted) : StartsBefore(c, sorted[k], isHorizontal)}
  IN  IF later = {} THEN Append(sorted, c)
      ELSE LET k == CHOOSE j \in later : \A h \in later : j <= h
           IN  SubSeq(sorted, 1, k - 1) \o <<c>> \o SubSeq(sorted, k, Len(sorted))

RECURSIVE SortByStart(_, _, _)
SortByStart(dims, k, isHorizontal) ==
  IF k = 0 THEN <<>>
  ELSE InsertByStart(SortByStart(dims, k - 1, isHorizontal), dims[k], isHorizontal)

(* the body of dims.forEach: index counts from 0 *)
LayoutDimension(dim, index, isHorizontal, bounds, config) ==
  [ id |-> dim.id,
    type |-> IF isHorizontal THEN "horizontal" ELSE "vertical",
    value |-> dim.value,
    anchorStart |-> [x |-> dim.position.start_x, y |-> dim.position.start_y],
    anchorEnd |-> [x |-> dim.position.end_x, y |-> dim.position.end_y],
    position |->
      IF isHorizontal
      THEN [ x |-> Half(Add(dim.position.start_x, dim.position.end_x)),
             y |-> Add(bounds.maxY, Add(config.dimensionOffset,
                                        Mul(I(index), config.stackingIncrement))) ]
      ELSE [ x |-> Add(bounds.maxX, Add(config.dimensionOffset,
                                        Mul(I(index), config.stackingIncrement))),
             y |-> Half(Add(dim.position.start_y, dim.position.end_y)) ],
    width |-> Add(Mul(I(Len(toFixed(dim.value, 2))), Num(5, 2)), I(4)),
    height |-> I(4),
    view |-> dim.view,
    offset |-> index ]

(* the layout dimensions pushed for the sorted group of one key *)
LayoutGroup(sorted, key, viewBounds, config) ==
  IF key[1] \notin DOMAIN viewBounds THEN <<>>
  ELSE [i \in 1..Len(sorted) |->
          LayoutDimension(sorted[i], i - 1, key[2] = "h", viewBounds[key[1]], config)]

(* the second loop of initializeLayout over the keys *)
LayoutGroups(dims, keys, viewBounds, config) ==
  Collect([g \in 1..Len(keys) |->
             LayoutGroup(SortByStart(GroupOf(dims, keys[g]),
                                     Len(GroupOf(dims, keys[g])), keys[g][2] = "h"),
                         keys[g], viewBounds, config)],
          Len(keys))

initializeLayout(dims, viewBounds, config) ==
  LayoutGroups(dims, GroupKeys(dims, Len(dims)), viewBounds, config)

(* the Map built by viewBounds.set(view.type, view.bounds) over views *)
ViewBoundsOf(views) ==
  [t \in {views[i].type : i \in 1..Len(views)} |->
     views[CHOOSE i \in 1..Len(views) :
             /\ views[i].type = t
             /\ \A h \in 1..Len(views) : views[h].type = t => h <= i].bounds]

(* the loop over viewBounds.values() *)
RECURSIVE GlobalBounds(_, _)
GlobalBounds(views, k) ==
  IF k = 0 THEN EmptyBounds
  ELSE [ minX |-> MathMin(GlobalBounds(views, k - 1).minX, views[k].bounds.minX),
         minY |-> MathMin(GlobalBounds(views, k - 1).minY, views[k].bounds.minY),
         maxX |-> MathMax(GlobalBounds(views, k - 1).maxX, views[k].bounds.maxX),
         maxY |-> MathMax(GlobalBounds(views, k - 1).maxY, views[k].bounds.maxY) ]

(* layoutDims.find(ld => ld.id === id): its index, 0 when there is none *)
FindLayoutDim(ldims, id) ==
  IF \E i \in 1..Len(ldims) : ldims[i].id = id
  THEN CHOOSE i \in 1..Len(ldims) :
         ldims[i].id = id /\ \A h \in 1..(i - 1) : ldims[h].id # id
  ELSE 0

(* layoutToPositions(layoutDims).get(id) for an id that is in the Map: the *)
(* entry set last                                                          *)
layoutToPositions(ldims, id) ==
  ldims[CHOOSE i \in 1..Len(ldims) :
          ldims[i].id = id /\ \A h \in (i + 1)..Len(ldims) : ldims[h].id # id].position

(* the callback of dimensions.map *)
UpdatePosition(dim, isHorizontal, newPos) ==
  IF isHorizontal
  THEN [dim EXCEPT !.position.start_y = newPos.y, !.position.end_y = newPos.y,
                   !.position.text_y = Sub(newPos.y, I(3))]
  ELSE [dim EXCEPT !.position.start_x = newPos.x, !.position.end_x = newPos.x,
                   !.position.text_x = Add(newPos.x, I(3))]

(* the end of optimizeDimensionLayout, after simulatedAnnealing *)
CopyBack(dims, ldims) ==
  [k \in 1..Len(dims) |->
     IF FindLayoutDim(ldims, dims[k].id) = 0 THEN dims[k]
     ELSE UpdatePosition(dims[k],
                         ldims[FindLayoutDim(ldims, dims[k].id)].type = "horizontal",
                         layoutToPositions(ldims, dims[k].id))]

----------------------------------------------------------------------------
(* Drawing Review: applying corrections *)

(* result.findIndex(d => d.id === id), counted from 1; 0 when there is none *)
FindIndex(result, id) ==
  IF \E i \in 1..Len(result) : result[i].id = id
  THEN CHOOSE i \in 1..Len(result) :
         result[i].id = id /\ \A h \in 1..(i - 1) : result[h].id # id
  ELSE 0

(* result.splice(index, 1) *)
Splice(result, index) ==
  SubSeq(result, 1, index - 1) \o SubSeq(result, index + 1, Len(result))

(* { ...position, ...newPosition } *)
Spread(position, newPosition) ==
  [f \in DOMAIN position \cup DOMAIN newPosition |->
     IF f \in DOMAIN newPosition THEN newPosition[f] ELSE position[f]]

(* variant of CorrectAt in which modify writes the value 0 when no         *)
(* suggested value is given                                                *)
CorrectAtAlwaysModify(result, correction, index) ==
  IF index = 0 THEN result
  ELSE IF correction.action = "delete" THEN Splice(result, index)
  ELSE IF correction.action = "modify"
       THEN [result EXCEPT ![index].value =
               IF "suggestedValue" \in DOMAIN correction
               THEN correction.suggestedValue ELSE I(0)]
  ELSE IF correction.action \in {"reposition", "move"}
          /\ "newPosition" \in DOMAIN correction
       THEN [result EXCEPT ![index].position = Spread(@, correction.newPosition)]
  ELSE result

(* the switch on correction.action; an optional field that is undefined    *)
(* is a field that the record does not have                                *)
CorrectAt(result, correction, index) ==
  IF index = 0 THEN result
  ELSE IF correction.action = "delete" THEN Splice(result, index)
  ELSE IF correction.action = "modify" /\ "suggestedValue" \in DOMAIN correction
       THEN [result EXCEPT ![index].value = correction.suggestedValue]
  ELSE IF correction.action \in {"reposition", "move"}
          /\ "newPosition" \in DOMAIN correction
       THEN [result EXCEPT ![index].position = Spread(@, correction.newPosition)]
  ELSE result

(* the loop over the first k corrections *)
RECURSIVE CorrectedAfter(_, _, _)
CorrectedAfter(dims, cs, k) ==
  IF k = 0 THEN dims
  ELSE CorrectAt(CorrectedAfter(dims, cs, k - 1), cs[k],
                 FindIndex(CorrectedAfter(dims, cs, k - 1), cs[k].dimensionId))

applyCorrections(dims, cs) == CorrectedAfter(dims, cs, Len(cs))

----------------------------------------------------------------------------
(* Drawing Review and dimension generation: reading the reply of the       *)
(* remote service. A response text is a sequence of tokens: "{", "}", ",", *)
(* the members "score" ("overallScore": 90) and "dims" ("dimensions":      *)
(* [...]), and "prose" (text without braces)                               *)

Members == {"score", "dims"}

Tokens == {"{", "}", ",", "prose"} \cup Members

(* text.match(/\{[\s\S]*\}/): the match starts at the first "{" and, being *)
(* greedy, ends at the last "}" after it; <<>> stands for null             *)
jsonMatch(text) ==
  IF \E a, b \in 1..Len(text) : a < b /\ text[a] = "{" /\ text[b] = "}"
  THEN SubSeq(text,
              CHOOSE a \in 1..Len(text) :
                text[a] = "{" /\ \A h \in 1..(a - 1) : text[h] # "{",
              CHOOSE b \in 1..Len(text) :
                text[b] = "}" /\ \A h \in (b + 1)..Len(text) : text[h] # "}")
  ELSE <<>>

(* JSON.parse throws unless the text is an object: members separated by    *)
(* commas between the braces                                               *)
JsonParseThrows(m) ==
  ~ /\ Len(m) >= 2
    /\ m[1] = "{"
    /\ m[Len(m)] = "}"
    /\ \/ Len(m) = 2
       \/ /\ Len(m) % 2 = 1
          /\ \A i \in 2..(Len(m) - 1) :
               IF i % 2 = 0 THEN m[i] \in Members ELSE m[i] = ","

(* JSON.parse: the keys of the parsed object *)
JsonParse(m) == { m[i] : i \in 2..(Len(m) - 1) } \cap Members

(* the result of reviewDrawing for a failure described by description *)
ReviewFailure(description) ==
  [ success |-> FALSE, isAcceptable |-> FALSE, overallScore |-> 0,
    issues |-> << [severity |-> "critical", category |-> "missing",
                   description |-> description] >>,
    suggestions |-> <<>>, corrections |-> <<>> ]

(* the result of reviewDrawing when the response text has no JSON object   *)
(* or JSON.parse throws                                                    *)
ReviewUnparsed(suggestion) ==
  [ success |-> TRUE, isAcceptable |-> TRUE, overallScore |-> 70,
    issues |-> <<>>, suggestions |-> <<suggestion>>, corrections |-> <<>> ]

(* the result of reviewDrawing from the parsed object: parsed.isAcceptable *)
(* ?? true, parsed.overallScore ?? 75; no token carries isAcceptable       *)
ReviewParsed(parsed) ==
  [ success |-> TRUE, isAcceptable |-> TRUE,
    overallScore |-> IF "score" \in parsed THEN 90 ELSE 75,
    issues |-> <<>>, suggestions |-> <<>>, corrections |-> <<>> ]

(* `API error: ${errorData.error || response.status}` with errorData = {}  *)
ReviewApiError(status) ==
  IF status = 401 THEN "API error: 401" ELSE "API error: 500"

(* reviewDrawing after fetch: reply.kind is "throw" when fetch rejects     *)
reviewDrawing(reply) ==
  IF reply.kind = "throw" THEN ReviewFailure("Network error")
  ELSE IF reply.status # 200 THEN ReviewFailure(ReviewApiError(reply.status))
  ELSE IF ~reply.success \/ reply.error # ""
       THEN ReviewFailure(IF reply.error # "" THEN reply.error
                          ELSE "Unknown API error")
  ELSE IF jsonMatch(reply.text) = <<>> THEN ReviewUnparsed(reply.text)
  ELSE IF JsonParseThrows(jsonMatch(reply.text))
       THEN ReviewUnparsed("Review completed but response parsing failed")
  ELSE ReviewParsed(JsonParse(jsonMatch(reply.text)))

(* the result of generateDimensions for a failure *)
GenerateFailure(error) ==
  [ success |-> FALSE, error |-> error, dimensions |-> <<>>, notes |-> <<>>,
    title_block_suggestions |-> <<>> ]

(* the result of generateDimensions from the parsed object *)
GenerateParsed(parsed) ==
  [ success |-> TRUE,
    dimensions |-> IF "dims" \in parsed THEN <<"dimension">> ELSE <<>>,
    notes |-> <<>>, title_block_suggestions |-> <<>> ]

(* errorData.error || `API error (${response.status})` with errorData = {} *)
GenerateApiError(status) ==
  IF status = 401
  THEN "Invalid or expired API key. Please check your key at ai.ohmframe.com"
  ELSE "API error (500)"

(* generateDimensions after fetch *)
generateDimensions(reply) ==
  IF reply.kind = "throw"
  THEN GenerateFailure("Network error - please check your connection")
  ELSE IF reply.status # 200 THEN GenerateFailure(GenerateApiError(reply.status))
  ELSE IF ~reply.success /\ reply.error # "" THEN GenerateFailure(reply.error)
  ELSE IF jsonMatch(reply.text) = <<>>
       THEN GenerateFailure("Could not parse dimensions from AI response")
  ELSE IF JsonParseThrows(jsonMatch(reply.text))
       THEN GenerateFailure("Invalid JSON in AI response")
  ELSE GenerateParsed(JsonParse(jsonMatch(reply.text)))

----------------------------------------------------------------------------
(* Drawing Review: the review-and-correct loop *)

(* what renderDimension draws of a dimension: its type, the end points of  *)
(* its line and its value                                                  *)
renderDimension(dim) ==
  << dim.type, dim.position.start_x, dim.position.start_y, dim.position.end_x,
     dim.position.end_y, dim.value >>

(* the svgGenerator handed to reviewAndCorrectLoop: the dimensions drawn   *)
(* in their order                                                          *)
svgGenerator(dims) == [k \in 1..Len(dims) |-> renderDimension(dims[k])]

(* variant of LoopContinues that runs the loop once more *)
LoopContinuesOnceMore(iterationNow, maxIterations) == iterationNow <= maxIterations

(* the condition of the while loop *)
LoopContinues(iterationNow, maxIterations) == iterationNow < maxIterations

(* review.isAcceptable && review.overallScore >= acceptableScore *)
IsAccepted(review, acceptableScore) ==
  review.isAcceptable /\ review.overallScore >= acceptableScore

(* the loop leaves after this review: it is accepted, or it has issues and *)
(* no corrections                                                          *)
LoopBreaks(review, acceptableScore) ==
  \/ IsAccepted(review, acceptableScore)
  \/ Len(review.corrections) = 0 /\ Len(review.issues) > 0

(* currentDimensions after the review *)
DimensionsAfter(dims, review, acceptableScore) ==
  IF ~IsAccepted(review, acceptableScore) /\ Len(review.corrections) > 0
  THEN applyCorrections(dims, review.corrections)
  ELSE dims

(* the object reviewAndCorrectLoop returns *)
LoopResult(dims, svg, rs, count) ==
  [ finalDimensions |-> dims, finalSvg |-> svg, reviews |-> rs,
    iterationCount |-> count ]

(* runVisionReview corrects the sheet after this review: the review is not *)
(* acceptable, has corrections, and the reviewIteration that the callback  *)
(* captured is below 3                                                     *)
AppliesCorrections(review, captured) ==
  ~review.isAcceptable /\ Len(review.corrections) > 0 /\ captured < 3

(* runVisionReview calls itself on the corrected sheet *)
ReviewsAgain(review, captured) ==
  AppliesCorrections(review, captured) /\ review.overallScore < 60

----------------------------------------------------------------------------
(* Inputs *)

P3(x, y, z) == <<I(x), I(y), I(z)>>

RECURSIVE FlattenSeq(_)
FlattenSeq(ss) == IF ss = <<>> THEN <<>> ELSE Head(ss) \o FlattenSeq(Tail(ss))

SeqsUpTo(S, n) == UNION {[1..k -> S] : k \in 0..n}

(* the sequences of at most n elements of S without repetition *)
DistinctSeqsUpTo(S, n) ==
  {s \in SeqsUpTo(S, n) : \A i, j \in 1..Len(s) : i # j => s[i] # s[j]}

(* Vertices 0..7 of the part meshes.  5 and 6 repeat the positions of 0    *)
(* and 1 under other indices.                                              *)
Positions ==
  FlattenSeq(<< P3(0, 0, 0), P3(4, 0, 0), P3(4, 3, 0), P3(0, 3, 0),
                P3(0, 0, 3), P3(0, 0, 0), P3(4, 0, 0), P3(0, -12, -5) >>)

(* Two coplanar triangles of the plane z = 0, a triangle of the plane      *)
(* y = 0 over repeated vertices, a triangle of the plane x = 0, the first  *)
(* triangle with reversed winding, a zero-area triangle, and a triangle    *)
(* tilted by less than the crease angle against the plane z = 0.           *)
Triangles ==
  { <<0, 1, 2>>, <<0, 2, 3>>, <<5, 4, 6>>, <<0, 3, 4>>,
    <<0, 2, 1>>, <<0, 1, 0>>, <<1, 0, 7>> }

Meshes ==
  { [positions |-> Positions, indices |-> FlattenSeq(ts)] :
      ts \in DistinctSeqsUpTo(Triangles, MaxTris) }

(* A pool of vertices around the origin, with coordinates that differ by   *)
(* less than the rounding step of the edge key, and triangles over it.     *)
Tiny == Num(1, 10000000)

FinePositions ==
  FlattenSeq(<< P3(0, 0, 0), P3(1, 0, 0), P3(0, 1, 0),
                <<Neg(Tiny), I(0), I(0)>>, P3(1, 0, 0),
                <<Tiny, I(0), I(0)>>, P3(0, 0, 1) >>)

FineTriangles ==
  { <<0, 1, 2>>, <<0, 2, 1>>, <<3, 4, 2>>, <<5, 4, 2>>,
    <<0, 1, 6>>, <<4, 0, 6>>, <<0, 1, 0>>, <<5, 0, 2>> }

FineMeshes ==
  { [positions |-> FinePositions, indices |-> FlattenSeq(ts)] :
      ts \in SeqsUpTo(FineTriangles, MaxTris) }

(* Vertices 0..7 of a plate: 0..4 in the plane z = 5, 5..7 in the plane    *)
(* z = 0                                                                   *)
PlatePositions ==
  FlattenSeq(<< P3(0, 0, 5), P3(4, 0, 5), P3(4, 3, 5), P3(0, 3, 5), P3(8, 0, 5),
                P3(0, 0, 0), P3(4, 0, 0), P3(0, 3, 0) >>)

(* Three triangles of the plane z = 5 with areas 6, 6 and 12, the first    *)
(* with reversed winding, a triangle of the plane z = 0 and its reverse,   *)
(* and a zero-area triangle                                                *)
PlateTriangles ==
  { <<0, 1, 2>>, <<0, 2, 3>>, <<0, 4, 2>>, <<0, 2, 1>>,
    <<5, 6, 7>>, <<5, 7, 6>>, <<0, 1, 0>> }

PlateMeshes ==
  { [positions |-> PlatePositions, indices |-> FlattenSeq(ts)] :
      ts \in DistinctSeqsUpTo(PlateTriangles, MaxTris) }

EmptyMesh == [positions |-> <<>>, indices |-> <<>>]

Box(w, h, d) == [width |-> I(w), height |-> I(h), depth |-> I(d)]

BoundingBoxes == {Box(50, 30, 20)}

(* the six canonical directions and two oblique unit vectors *)
ViewDirs ==
  {VIEW_DIRECTIONS[v] : v \in ViewTypes}
    \cup { <<I(0), Num(3, 5), Num(4, 5)>>, <<I(0), Num(-3, 5), Num(-4, 5)>> }

Dim(k, v, t, value) ==
  [ id |-> <<"dim", k>>, type |-> t, value |-> value, unit |-> "mm", view |-> v,
    position |-> [ start_x |-> I(0), start_y |-> I(-10), end_x |-> value,
                   end_y |-> I(-10), text_x |-> Half(value), text_y |-> I(-13) ],
    label |-> <<"Overall Width", "X">>, is_critical |-> (k = 1) ]

(* values 10.02, 10.04 and 10 print as "10.0", 10.06 prints as "10.1" *)
DimensionPool ==
  { Dim(1, "front", "linear", Num(1002, 100)),
    Dim(2, "front", "linear", Num(1004, 100)),
    Dim(3, "front", "linear", Num(1006, 100)),
    Dim(4, "top", "linear", Num(1002, 100)),
    Dim(5, "front", "diameter", I(10)) }

(* values of (Math.random() - 0.5) * 10, which lies in [-5, 5) *)
MoveAmounts == {I(-4), I(4)}

(* projected edges: horizontal ones at the levels y = 0, 1, 3 and a hidden  *)
(* one at y = 6, vertical ones at x = 0 and, not quite upright, at x = 4,  *)
(* and a sloping one                                                       *)
Edge2D(type, x1, y1, x2, y2) ==
  [type |-> type, start |-> <<x1, y1>>, end |-> <<x2, y2>>]

Edges2D ==
  { Edge2D("visible", I(0), I(0), I(4), I(0)),
    Edge2D("visible", I(0), I(1), I(4), I(1)),
    Edge2D("visible", I(4), I(3), I(0), I(3)),
    Edge2D("hidden", I(0), I(6), I(4), I(6)),
    Edge2D("visible", I(0), I(0), I(0), I(3)),
    Edge2D("visible", I(4), I(0), Num(81, 20), I(1)),
    Edge2D("visible", I(0), I(0), I(4), I(3)) }

(* edges2D and the bounds after the loop of generateProjectedView has      *)
(* pushed the first k of the edges es                                      *)
RECURSIVE PushedEdges(_, _)
PushedEdges(es, k) ==
  IF k = 0 THEN [edges |-> <<>>, bounds |-> EmptyBounds]
  ELSE AddProjected(PushedEdges(es, k - 1), es[k].type, es[k].start, es[k].end)

FeatureViews ==
  { ViewOf("front", PushedEdges(es, Len(es))) : es \in SeqsUpTo(Edges2D, MaxEdges) }

(* by how much annealing moves have displaced a dimension line: not at all, *)
(* by one move of -5 or by two                                             *)
EnergyShifts == {I(0), I(-5), I(-10)}

(* the layout dimensions with the line of dimension k displaced by shifts[k] *)
Shifted(ldims, shifts) ==
  [k \in 1..Len(ldims) |-> Moved(ldims, k, shifts[k])[k]]

(* the view of a box-shaped part: the outline of w by h, all edges visible *)
OutlineView(viewType, w, h) ==
  ViewOf(viewType,
         [ edges |-> << [type |-> "visible", start |-> <<I(0), I(0)>>, end |-> <<I(w), I(0)>>],
                        [type |-> "visible", start |-> <<I(w), I(0)>>, end |-> <<I(w), I(h)>>],
                        [type |-> "visible", start |-> <<I(w), I(h)>>, end |-> <<I(0), I(h)>>],
                        [type |-> "visible", start |-> <<I(0), I(h)>>, end |-> <<I(0), I(0)>>] >>,
           bounds |-> [minX |-> I(0), minY |-> I(0), maxX |-> I(w), maxY |-> I(h)] ])

(* the projected views of the box 50 x 30 x 20 and the config handed to    *)
(* optimizeDimensionLayout: two views with one sweep, or one view with up  *)
(* to MaxIterations sweeps                                                 *)
LayoutCases ==
  { [ views |-> << OutlineView("front", 50, 30), OutlineView("top", 50, 20) >>,
      config |-> [maxIterations |-> 1] ] }
    \cup { [ views |-> << OutlineView("front", 50, 30) >>,
             config |-> [maxIterations |-> n] ] : n \in 1..MaxIterations }

(* a dimension from the remote service, in a view that is not projected *)
AiDimensions ==
  { <<>>,
    << [ id |-> <<"ai", 1>>, type |-> "linear", value |-> I(7), unit |-> "mm",
         view |-> "section",
         position |-> [ start_x |-> I(0), start_y |-> I(-10), end_x |-> I(7),
                        end_y |-> I(-10), text_x |-> Num(7, 2), text_y |-> I(-13) ],
         label |-> <<"Slot", "">>, is_critical |-> FALSE ] >> }

(* generateAllDimensions, and the loop that flattens its result *)
generateAllDimensions(views, box, ds, options) ==
  Collect([i \in 1..Len(views) |-> generateViewDimensions(views[i], box, ds, options)],
          Len(views))

(* a candidate between (0, 0) and (value, 0) or (0, value) *)
Candidate(type, direction, value, priority, name) ==
  [ type |-> type, value |-> I(value), direction |-> direction, viewType |-> "front",
    startPoint |-> <<I(0), I(0)>>,
    endPoint |-> IF direction = "horizontal" THEN <<I(value), I(0)>>
                 ELSE <<I(0), I(value)>>,
    priority |-> priority, label |-> <<name, "">> ]

CandidatePool ==
  { Candidate("overall", "horizontal", 50, OverallPriority, "Overall Width"),
    Candidate("feature", "horizontal", 20, FeaturePriority, "Step Width"),
    Candidate("feature", "horizontal", 10, FeaturePriority, "Slot Width"),
    Candidate("datum-reference", "horizontal", 0, DatumPriority, "DATUM A"),
    Candidate("feature", "vertical", 30, FeaturePriority, "Step Height") }

(* options handed to placeDimensions: the unit alone, as generateViewDimensions *)
(* is called, or the offsets as well                                            *)
PlacementOptions ==
  { [unit |-> "mm"],
    [unit |-> "in", dimensionOffset |-> I(12), stackingOffset |-> I(5)] }

(* the dimensions of a drawing with two views: two placed candidates in    *)
(* the front view and the overall dimensions of the top view               *)
EnergyDimensions ==
  { placeDimensions(<<a, b>>, OutlineView("front", 50, 30).bounds, [unit |-> "mm"])
      \o placeDimensions(calculateOverallDimensions(Box(50, 30, 20), "top"),
                         OutlineView("top", 50, 20).bounds, [unit |-> "mm"]) :
      a \in CandidatePool, b \in CandidatePool }

(* dimensions of a drawing with two views: the ids repeat from view to view *)
ReviewedDimensions ==
  { Dim(1, "front", "linear", I(50)), Dim(2, "front", "linear", I(30)),
    Dim(1, "top", "linear", I(20)) }

Correction(id, action) ==
  [ dimensionId |-> <<"dim", id>>, currentValue |-> I(50), action |-> action,
    reason |-> "review" ]

(* correction c with the optional field suggestedValue *)
WithValue(c, v) ==
  [f \in DOMAIN c \cup {"suggestedValue"} |-> IF f = "suggestedValue" THEN v ELSE c[f]]

(* correction c with the optional field newPosition *)
WithPosition(c, q) ==
  [f \in DOMAIN c \cup {"newPosition"} |-> IF f = "newPosition" THEN q ELSE c[f]]

NewPosition ==
  [start_x |-> I(0), start_y |-> I(-20), end_x |-> I(50), end_y |-> I(-20)]

CorrectionPool ==
  { Correction(1, "delete"),
    Correction(9, "delete"),
    WithValue(Correction(1, "modify"), I(42)),
    Correction(1, "modify"),
    WithPosition(Correction(2, "move"), NewPosition),
    WithPosition(Correction(1, "reposition"), NewPosition),
    Correction(2, "move"),
    Correction(1, "add") }


(* what fetch and response.json() hand to the caller: text is              *)
(* data.response || data.message || ""                                     *)
Reply(kind, status, success, error, text) ==
  [ kind |-> kind, status |-> status, success |-> success, error |-> error,
    text |-> text ]

Replies ==
  { Reply("throw", 0, FALSE, "", <<>>) }
  \cup { Reply("response", status, FALSE, "", <<>>) : status \in {401, 500} }
  \cup { Reply("response", 200, success, error, text) :
           success \in BOOLEAN, error \in {"", "quota exceeded"},
           text \in SeqsUpTo(Tokens, MaxText) }


(* a review as reviewDrawing returns it from a parsed response *)
Review(isAcceptable, overallScore, issues, cs) ==
  [ success |-> TRUE, isAcceptable |-> isAcceptable, overallScore |-> overallScore,
    issues |-> issues, suggestions |-> <<>>, corrections |-> cs ]

Issue ==
  [severity |-> "major", category |-> "dimension", description |-> "overlapping"]

(* reviews: accepted; acceptable below the score asked for, with nothing   *)
(* to do; rejected with a deletion; rejected with a low score and a new    *)
(* value; rejected with issues alone; and a failed request                 *)
ReviewPool ==
  { Review(TRUE, 90, <<>>, <<>>),
    ReviewUnparsed("Review completed but response parsing failed"),
    Review(FALSE, 65, <<Issue>>, <<Correction(2, "delete")>>),
    Review(FALSE, 50, <<Issue>>, <<WithValue(Correction(1, "modify"), I(42))>>),
    Review(FALSE, 40, <<Issue>>, <<>>),
    ReviewFailure("Network error") }

(* the dimensions handed to the review *)
LoopDimensions ==
  { <<>>,
    << Dim(1, "front", "linear", I(50)) >>,
    << Dim(1, "front", "linear", I(50)), Dim(2, "front", "linear", I(30)) >> }

NoClass == [edge |-> [v1 |-> <<>>, v2 |-> <<>>, faces |-> <<>>], viewDir |-> <<>>,
            result |-> "none"]

NoView == [type |-> "none", edges |-> <<>>, circles |-> <<>>, bounds |-> EmptyBounds,
           scale |-> I(1)]

----------------------------------------------------------------------------
(* Operations *)

ExtractEdges ==
  /\ pc = "ready"
  /\ edges3D' = extractEdges(meshData)
  /\ pc' = "edges"
  /\ UNCHANGED <<meshData, bbox, dimsIn, classified, view, datums, dimensions>>
  /\ UNCHANGED stageVars

ClassifyEdge ==
  /\ pc = "edges"
  /\ \E i \in 1..Len(edges3D), viewDir \in ViewDirs :
       classified' = [ edge |-> edges3D[i], viewDir |-> viewDir,
                       result |-> classifyEdge(edges3D[i], meshData, viewDir) ]
  /\ pc' = "classified"
  /\ UNCHANGED <<meshData, bbox, dimsIn, edges3D, view, datums, dimensions>>
  /\ UNCHANGED stageVars

GenerateProjectedView ==
  /\ pc = "ready"
  /\ \E viewType \in ViewTypes : view' = generateProjectedView(meshData, viewType)
  /\ pc' = "view"
  /\ UNCHANGED <<meshData, bbox, dimsIn, edges3D, classified, datums, dimensions>>
  /\ UNCHANGED stageVars


(* reviewAndCorrectLoop up to the while loop *)
StartLoop ==
  /\ pc = "loop-call"
  /\ loopDims' = dimsIn
  /\ loopSvg' = svgGenerator(dimsIn)
  /\ reviews' = <<>>
  /\ iteration' = 0
  /\ pc' = "loop"
  /\ UNCHANGED <<meshData, bbox, dimsIn, edges3D, classified, view, datums, dimensions,
                 maxPerView, layoutVars, appVars, faceVars, placeVars, reviewVars,
                 loopConfig, loopResult>>

(* one pass of the while loop, with the review that reviewDrawing resolves *)
(* to; a break goes on to the return statement                             *)
ReviewIteration ==
  /\ pc = "loop"
  /\ LoopContinues(iteration, loopConfig.maxIterations)
  /\ iteration' = iteration + 1
  /\ loopSvg' = svgGenerator(loopDims)
  /\ \E review \in ReviewPool :
       /\ reviews' = Append(reviews, review)
       /\ loopDims' = DimensionsAfter(loopDims, review, loopConfig.acceptableScore)
       /\ IF LoopBreaks(review, loopConfig.acceptableScore)
          THEN /\ loopResult' = LoopResult(loopDims', loopSvg', reviews', iteration')
               /\ pc' = "loop-returned"
          ELSE /\ loopResult' = loopResult
               /\ pc' = "loop"
  /\ UNCHANGED <<meshData, bbox, dimsIn, edges3D, classified, view, datums, dimensions,
                 maxPerView, layoutVars, appVars, faceVars, placeVars, reviewVars,
                 loopConfig>>

(* the return statement once the condition of the while loop fails *)
ReturnFromLoop ==
  /\ pc = "loop"
  /\ ~LoopContinues(iteration, loopConfig.maxIterations)
  /\ loopResult' = LoopResult(loopDims, loopSvg, reviews, iteration)
  /\ pc' = "loop-returned"
  /\ UNCHANGED <<meshData, bbox, dimsIn, edges3D, classified, view, datums, dimensions,
                 maxPerView, layoutVars, appVars, faceVars, placeVars, reviewVars,
                 loopConfig, loopDims, loopSvg, reviews, iteration>>


(* handleGenerateDrawing up to the drawing sheet: the flags are set, the   *)
(* counter of reviews is reset and the sheet is shown                      *)
StartGeneration ==
  /\ pc = "app-call"
  /\ isGenerating' = TRUE
  /\ reviewIteration' = 0
  /\ dimensions' = dimsIn
  /\ pc' = "app-generated"
  /\ UNCHANGED <<meshData, bbox, dimsIn, edges3D, classified, view, datums,
                 maxPerView, layoutVars, loopVars, faceVars, placeVars, reviewVars,
                 reviewEnabled, capturedIteration, rounds, isReviewing>>

(* handleGenerateDrawing at the review: with review enabled and an API key *)
(* it awaits runVisionReview, otherwise it finishes                        *)
BeginReview ==
  /\ pc = "app-generated"
  /\ IF reviewEnabled
     THEN /\ isReviewing' = TRUE
          /\ isGenerating' = isGenerating
          /\ pc' = "app-review"
     ELSE /\ isReviewing' = isReviewing
          /\ isGenerating' = FALSE
          /\ pc' = "app-done"
  /\ UNCHANGED <<meshData, bbox, dimsIn, edges3D, classified, view, datums, dimensions,
                 maxPerView, layoutVars, loopVars, faceVars, placeVars, reviewVars,
                 reviewEnabled, reviewIteration, capturedIteration, rounds>>

(* one call of runVisionReview with the review that reviewDrawing resolves *)
(* to; the test of reviewIteration reads the value the callback captured   *)
RunVisionReview ==
  /\ pc = "app-review"
  /\ rounds < MaxRounds
  /\ reviewIteration' = reviewIteration + 1
  /\ rounds' = rounds + 1
  /\ \E review \in ReviewPool :
       /\ dimensions' = IF AppliesCorrections(review, capturedIteration)
                        THEN applyCorrections(dimensions, review.corrections)
                        ELSE dimensions
       /\ pc' = IF ReviewsAgain(review, capturedIteration)
                THEN "app-review" ELSE "app-reviewed"
  /\ UNCHANGED <<meshData, bbox, dimsIn, edges3D, classified, view, datums,
                 maxPerView, layoutVars, loopVars, faceVars, placeVars, reviewVars,
                 reviewEnabled, capturedIteration, isReviewing, isGenerating>>

(* handleGenerateDrawing after runVisionReview returned *)
FinishGeneration ==
  /\ pc = "app-reviewed"
  /\ isReviewing' = FALSE
  /\ isGenerating' = FALSE
  /\ pc' = "app-done"
  /\ UNCHANGED <<meshData, bbox, dimsIn, edges3D, classified, view, datums, dimensions,
                 maxPerView, layoutVars, loopVars, faceVars, placeVars, reviewVars,
                 reviewEnabled, reviewIteration, capturedIteration, rounds>>

(* calculateFeatureDimensions called on the projected view *)
CalculateFeatureDimensions ==
  /\ pc = "view"
  /\ placeCandidates' = calculateFeatureDimensions(view)
  /\ pc' = "features"
  /\ UNCHANGED <<meshData, bbox, dimsIn, edges3D, classified, view, datums, dimensions,
                 maxPerView, layoutVars, appVars, loopVars, faceVars, placeOptions, reviewVars>>

(* extractPlanarFaces called on the mesh *)
ExtractPlanarFaces ==
  /\ pc = "ready"
  /\ planarFaces' = extractPlanarFaces(meshData)
  /\ pc' = "faces"
  /\ UNCHANGED <<meshData, bbox, dimsIn, edges3D, classified, view, datums, dimensions,
                 maxPerView, layoutVars, appVars, loopVars, placeVars, reviewVars>>

SelectDatums ==
  /\ pc = "view"
  /\ datums' = selectDatums(meshData)
  /\ pc' = "datums"
  /\ UNCHANGED <<meshData, bbox, dimsIn, edges3D, classified, view, dimensions>>
  /\ UNCHANGED stageVars

GenerateViewDimensions ==
  /\ pc = "datums"
  /\ dimensions' = generateViewDimensions(view, bbox, datums, [unit |-> "mm"])
  /\ pc' = "dims"
  /\ UNCHANGED <<meshData, bbox, dimsIn, edges3D, classified, view, datums>>
  /\ UNCHANGED stageVars

PlaceDimensions ==
  /\ pc = "candidates"
  /\ dimensions' = placeDimensions(placeCandidates, view.bounds, placeOptions)
  /\ pc' = "placed"
  /\ UNCHANGED <<geomVars, dimsIn, maxPerView, layoutVars>>

(* applyCorrections: dimsIn is the array handed in, dimensions the array    *)
(* returned; the array handed in is copied before the loop and its         *)
(* elements are replaced, not written                                      *)
ApplyCorrections ==
  /\ pc = "reviewed"
  /\ dimensions' = applyCorrections(dimsIn, corrections)
  /\ dimsIn' = dimsIn
  /\ pc' = "corrected"
  /\ UNCHANGED <<meshData, bbox, edges3D, classified, view, datums, placeVars,
                 faceVars,
                 reviewVars, maxPerView, layoutVars, appVars, loopVars>>


(* reviewDrawing, from the reply of the service to the result *)
ReviewDrawing ==
  /\ pc = "reply"
  /\ aiResult' = reviewDrawing(aiResponse)
  /\ pc' = "review-returned"
  /\ UNCHANGED <<meshData, bbox, dimsIn, edges3D, classified, view, datums,
                 dimensions, maxPerView, layoutVars, appVars, loopVars, placeVars, corrections,
                 faceVars,
                 aiResponse>>

(* generateDimensions, from the reply of the service to the result *)
GenerateDimensions ==
  /\ pc = "reply"
  /\ aiResult' = generateDimensions(aiResponse)
  /\ pc' = "generate-returned"
  /\ UNCHANGED <<meshData, bbox, dimsIn, edges3D, classified, view, datums,
                 dimensions, maxPerView, layoutVars, appVars, loopVars, placeVars, corrections,
                 faceVars,
                 aiResponse>>

Filter ==
  /\ pc \in {"list", "deduped"}
  /\ dimensions' = filterEssentialDimensions(dimensions, maxPerView)
  /\ pc' = "filtered"
  /\ UNCHANGED <<geomVars, dimsIn, maxPerView, layoutVars>>

Dedup ==
  /\ pc \in {"list", "dedup1", "generated"}
  /\ dimensions' = deduplicateDimensions(dimensions)
  /\ pc' = IF pc = "list" THEN "dedup1"
           ELSE IF pc = "dedup1" THEN "dedup2" ELSE "deduped"
  /\ UNCHANGED <<meshData, bbox, dimsIn, edges3D, classified, view, datums>>
  /\ UNCHANGED stageVars

(* optimizeDimensionLayout up to the call of simulatedAnnealing, and the   *)
(* first line of simulatedAnnealing                                        *)
StartLayout ==
  /\ pc = "filtered"
  /\ Len(projectedViews) > 0
  /\ layoutIn' = dimensions
  /\ layoutDims' = initializeLayout(dimensions, ViewBoundsOf(projectedViews),
                                    FullConfig(layoutConfig))
  /\ pc' = IF Len(layoutDims') = 0 THEN "optimized" ELSE "anneal"
  /\ temperature' = IF Len(layoutDims') = 0 THEN temperature
                    ELSE FullConfig(layoutConfig).initialTemperature
  /\ iter' = 0
  /\ moves' = 0
  /\ picks' = [i \in 1..Len(layoutDims') |-> 0]
  /\ accepted' = FALSE
  /\ UNCHANGED <<geomVars, dimsIn, dimensions, maxPerView, projectedViews, layoutConfig,
                 energy>>

(* one pass of the inner loop of simulatedAnnealing: one call of mcMove *)
McMove ==
  /\ pc = "anneal"
  /\ iter < FullConfig(layoutConfig).maxIterations
  /\ moves < Len(layoutDims)
  /\ \E i \in 1..Len(layoutDims), moveAmount \in MoveAmounts :
       \E accept \in Acceptances(DeltaEnergy(layoutDims, i, moveAmount,
                                             GlobalBounds(projectedViews,
                                                          Len(projectedViews)),
                                             FullConfig(layoutConfig)),
                                 temperature) :
         /\ layoutDims' = mcMove(layoutDims, i, moveAmount, accept)
         /\ picks' = [picks EXCEPT ![i] = @ + 1]
         /\ accepted' = accept
  /\ moves' = moves + 1
  /\ UNCHANGED <<geomVars, dimsIn, dimensions, maxPerView, pc, projectedViews,
                 layoutConfig, layoutIn, temperature, iter, energy>>

(* one call of calculateEnergy, as mcMove calls it for the dimension it     *)
(* selected                                                                *)
CalculateEnergy ==
  /\ pc = "layout"
  /\ \E index \in 1..Len(layoutDims) :
       energy' = [ index |-> index,
                   value |-> calculateEnergy(index, layoutDims,
                                             GlobalBounds(projectedViews,
                                                          Len(projectedViews)),
                                             FullConfig(layoutConfig)) ]
  /\ pc' = "energy"
  /\ UNCHANGED <<geomVars, dimsIn, dimensions, maxPerView, projectedViews,
                 layoutConfig, layoutIn, layoutDims, temperature, iter, moves,
                 picks, accepted>>

(* the end of one pass of the outer loop of simulatedAnnealing *)
CoolDown ==
  /\ pc = "anneal"
  /\ iter < FullConfig(layoutConfig).maxIterations
  /\ moves = Len(layoutDims)
  /\ temperature' = Mul(temperature, FullConfig(layoutConfig).coolingRate)
  /\ iter' = iter + 1
  /\ moves' = 0
  /\ picks' = [i \in 1..Len(layoutDims) |-> 0]
  /\ UNCHANGED <<geomVars, dimsIn, dimensions, maxPerView, pc, projectedViews,
                 layoutConfig, layoutIn, layoutDims, accepted, energy>>

(* optimizeDimensionLayout after simulatedAnnealing has returned *)
FinishLayout ==
  /\ pc = "anneal"
  /\ iter = FullConfig(layoutConfig).maxIterations
  /\ dimensions' = CopyBack(dimensions, layoutDims)
  /\ pc' = "optimized"
  /\ UNCHANGED <<geomVars, dimsIn, maxPerView, layoutVars>>

----------------------------------------------------------------------------
(* Specifications *)

(* the later stages before they are given anything to do *)
LayoutIdle ==
  /\ projectedViews = <<>>
  /\ layoutConfig = <<>>
  /\ layoutIn = <<>>
  /\ layoutDims = <<>>
  /\ temperature = I(0)
  /\ iter = 0
  /\ moves = 0
  /\ picks = <<>>
  /\ accepted = FALSE
  /\ energy = <<>>

PlaceIdle ==
  /\ placeCandidates = <<>>
  /\ placeOptions = <<>>

ReviewIdle ==
  /\ corrections = <<>>
  /\ aiResponse = "none"
  /\ aiResult = <<>>

FaceIdle ==
  /\ planarFaces = <<>>

LoopIdle ==
  /\ loopConfig = <<>>
  /\ loopDims = <<>>
  /\ loopSvg = <<>>
  /\ reviews = <<>>
  /\ iteration = 0
  /\ loopResult = <<>>

AppIdle ==
  /\ reviewEnabled = FALSE
  /\ reviewIteration = 0
  /\ capturedIteration = 0
  /\ rounds = 0
  /\ isReviewing = FALSE
  /\ isGenerating = FALSE

StageIdle ==
  /\ AppIdle
  /\ LoopIdle
  /\ FaceIdle
  /\ maxPerView = 0
  /\ LayoutIdle
  /\ PlaceIdle
  /\ ReviewIdle

(* the geometry pipeline on a loaded part *)
Init ==
  /\ meshData \in Meshes
  /\ bbox \in BoundingBoxes
  /\ dimsIn = <<>>
  /\ pc = "ready"
  /\ edges3D = <<>>
  /\ classified = NoClass
  /\ view = NoView
  /\ datums = <<>>
  /\ dimensions = <<>>
  /\ StageIdle

Next ==
  \/ ExtractEdges
  \/ ClassifyEdge
  \/ GenerateProjectedView
  \/ SelectDatums
  \/ GenerateViewDimensions

Spec == Init /\ [][Next]_vars

(* calculateFeatureDimensions on projected views with up to MaxEdges edges *)
InitFeatures ==
  /\ meshData = EmptyMesh
  /\ bbox = Box(4, 6, 0)
  /\ dimsIn = <<>>
  /\ pc = "view"
  /\ edges3D = <<>>
  /\ classified = NoClass
  /\ view \in FeatureViews
  /\ datums = <<>>
  /\ dimensions = <<>>
  /\ StageIdle

NextFeatures == CalculateFeatureDimensions

SpecFeatures == InitFeatures /\ [][NextFeatures]_vars

(* reviewAndCorrectLoop on the dimensions of a drawing, with maxIterations *)
(* up to MaxLoop and the default acceptableScore                           *)
InitLoop ==
  /\ meshData = EmptyMesh
  /\ bbox = Box(50, 30, 20)
  /\ dimsIn \in LoopDimensions
  /\ pc = "loop-call"
  /\ edges3D = <<>>
  /\ classified = NoClass
  /\ view = NoView
  /\ datums = <<>>
  /\ dimensions = <<>>
  /\ maxPerView = 0
  /\ LayoutIdle
  /\ PlaceIdle
  /\ ReviewIdle
  /\ FaceIdle
  /\ AppIdle
  /\ \E n \in 0..MaxLoop : loopConfig = [maxIterations |-> n, acceptableScore |-> 80]
  /\ loopDims = <<>>
  /\ loopSvg = <<>>
  /\ reviews = <<>>
  /\ iteration = 0
  /\ loopResult = <<>>

NextLoop == StartLoop \/ ReviewIteration \/ ReturnFromLoop

SpecLoop == InitLoop /\ [][NextLoop]_vars

(* every await of reviewDrawing resolves, and the function runs on *)
SpecLoopFair == SpecLoop /\ WF_vars(NextLoop)

(* one drawing generation of the App: the review switch, the value of     *)
(* reviewIteration left by earlier generations and the value captured by   *)
(* the runVisionReview that handleGenerateDrawing holds                    *)
InitApp ==
  /\ meshData = EmptyMesh
  /\ bbox = Box(50, 30, 20)
  /\ dimsIn \in LoopDimensions
  /\ pc = "app-call"
  /\ edges3D = <<>>
  /\ classified = NoClass
  /\ view = NoView
  /\ datums = <<>>
  /\ dimensions = <<>>
  /\ maxPerView = 0
  /\ LayoutIdle
  /\ PlaceIdle
  /\ ReviewIdle
  /\ FaceIdle
  /\ LoopIdle
  /\ reviewEnabled \in BOOLEAN
  /\ reviewIteration \in 0..MaxRounds
  /\ capturedIteration \in 0..MaxRounds
  /\ rounds = 0
  /\ isReviewing = FALSE
  /\ isGenerating = FALSE

NextApp == StartGeneration \/ BeginReview \/ RunVisionReview \/ FinishGeneration

SpecApp == InitApp /\ [][NextApp]_vars

(* the planar-face clusterer on the triangles of a plate *)
InitFaces ==
  /\ meshData \in PlateMeshes
  /\ bbox = Box(8, 3, 5)
  /\ dimsIn = <<>>
  /\ pc = "ready"
  /\ edges3D = <<>>
  /\ classified = NoClass
  /\ view = NoView
  /\ datums = <<>>
  /\ dimensions = <<>>
  /\ StageIdle

NextFaces == ExtractPlanarFaces

SpecFaces == InitFaces /\ [][NextFaces]_vars

(* the edge extractor on vertices closer than the rounding step of the key *)
InitEdges ==
  /\ meshData \in FineMeshes
  /\ bbox = Box(0, 0, 0)
  /\ dimsIn = <<>>
  /\ pc = "ready"
  /\ edges3D = <<>>
  /\ classified = NoClass
  /\ view = NoView
  /\ datums = <<>>
  /\ dimensions = <<>>
  /\ StageIdle

NextEdges == ExtractEdges

SpecEdges == InitEdges /\ [][NextEdges]_vars

(* the Dedup stage on a list of dimensions *)
InitDedup ==
  /\ meshData = EmptyMesh
  /\ bbox = Box(0, 0, 0)
  /\ dimsIn \in SeqsUpTo(DimensionPool, MaxDims)
  /\ pc = "list"
  /\ edges3D = <<>>
  /\ classified = NoClass
  /\ view = NoView
  /\ datums = <<>>
  /\ dimensions = dimsIn
  /\ StageIdle

NextDedup == Dedup

SpecDedup == InitDedup /\ [][NextDedup]_vars

(* the Filter stage on a list of dimensions and a cap *)
InitFilter ==
  /\ meshData = EmptyMesh
  /\ bbox = Box(0, 0, 0)
  /\ dimsIn \in SeqsUpTo(DimensionPool, MaxDims)
  /\ pc = "list"
  /\ edges3D = <<>>
  /\ classified = NoClass
  /\ view = NoView
  /\ datums = <<>>
  /\ dimensions = dimsIn
  /\ maxPerView \in 0..MaxCap
  /\ LayoutIdle
  /\ PlaceIdle
  /\ ReviewIdle
  /\ FaceIdle
  /\ LoopIdle
  /\ AppIdle

NextFilter == Filter

SpecFilter == InitFilter /\ [][NextFilter]_vars

(* the cap that handleGenerateDrawing hands to filterEssentialDimensions *)
AppMaxPerView == 6

(* the clean-up of handleGenerateDrawing on the generated dimensions of a  *)
(* box-shaped part: Dedup, Filter and the layout optimizer                 *)
InitLayout ==
  /\ meshData = EmptyMesh
  /\ bbox = Box(50, 30, 20)
  /\ \E c \in LayoutCases : projectedViews = c.views /\ layoutConfig = c.config
  /\ \E ai \in AiDimensions :
       dimensions = generateAllDimensions(projectedViews, bbox, <<>>, [unit |-> "mm"])
                      \o ai
  /\ dimsIn = dimensions
  /\ pc = "generated"
  /\ edges3D = <<>>
  /\ classified = NoClass
  /\ view = NoView
  /\ datums = <<>>
  /\ maxPerView = AppMaxPerView
  /\ layoutIn = <<>>
  /\ layoutDims = <<>>
  /\ temperature = I(0)
  /\ iter = 0
  /\ moves = 0
  /\ picks = <<>>
  /\ accepted = FALSE
  /\ energy = <<>>
  /\ PlaceIdle
  /\ ReviewIdle
  /\ FaceIdle
  /\ LoopIdle
  /\ AppIdle

NextLayout ==
  \/ Dedup
  \/ Filter
  \/ StartLayout
  \/ McMove
  \/ CoolDown
  \/ FinishLayout

SpecLayout == InitLayout /\ [][NextLayout]_vars

(* placeDimensions on a list of candidates *)
InitPlace ==
  /\ meshData = EmptyMesh
  /\ bbox = Box(50, 30, 20)
  /\ dimsIn = <<>>
  /\ pc = "candidates"
  /\ edges3D = <<>>
  /\ classified = NoClass
  /\ view = OutlineView("front", 50, 30)
  /\ datums = <<>>
  /\ dimensions = <<>>
  /\ maxPerView = 0
  /\ LayoutIdle
  /\ placeCandidates \in SeqsUpTo(CandidatePool, MaxCands)
  /\ placeOptions \in PlacementOptions
  /\ ReviewIdle
  /\ FaceIdle
  /\ LoopIdle
  /\ AppIdle

NextPlace == PlaceDimensions

SpecPlace == InitPlace /\ [][NextPlace]_vars

(* calculateEnergy on the layout of a drawing with two views, after        *)
(* annealing moves have displaced the dimension lines                      *)
InitEnergy ==
  /\ meshData = EmptyMesh
  /\ bbox = Box(50, 30, 20)
  /\ projectedViews = << OutlineView("front", 50, 30), OutlineView("top", 50, 20) >>
  /\ layoutConfig = <<>>
  /\ dimensions \in EnergyDimensions
  /\ dimsIn = dimensions
  /\ layoutIn = dimensions
  /\ layoutDims \in
       { Shifted(initializeLayout(dimensions, ViewBoundsOf(projectedViews),
                                  FullConfig(layoutConfig)), shifts) :
           shifts \in [1..Len(initializeLayout(dimensions,
                                               ViewBoundsOf(projectedViews),
                                               FullConfig(layoutConfig)))
                         -> EnergyShifts] }
  /\ pc = "layout"
  /\ edges3D = <<>>
  /\ classified = NoClass
  /\ view = NoView
  /\ datums = <<>>
  /\ maxPerView = AppMaxPerView
  /\ temperature = FullConfig(layoutConfig).initialTemperature
  /\ iter = 0
  /\ moves = 0
  /\ picks = <<>>
  /\ accepted = FALSE
  /\ energy = <<>>
  /\ PlaceIdle
  /\ ReviewIdle
  /\ FaceIdle
  /\ LoopIdle
  /\ AppIdle

NextEnergy == CalculateEnergy

SpecEnergy == InitEnergy /\ [][NextEnergy]_vars

(* applyCorrections on the dimensions of a drawing and a list of corrections *)
InitCorrections ==
  /\ meshData = EmptyMesh
  /\ bbox = Box(50, 30, 20)
  /\ dimsIn \in SeqsUpTo(ReviewedDimensions, MaxDims)
  /\ pc = "reviewed"
  /\ edges3D = <<>>
  /\ classified = NoClass
  /\ view = NoView
  /\ datums = <<>>
  /\ dimensions = <<>>
  /\ maxPerView = 0
  /\ LayoutIdle
  /\ PlaceIdle
  /\ corrections \in SeqsUpTo(CorrectionPool, MaxCorrections)
  /\ aiResponse = "none"
  /\ aiResult = <<>>
  /\ FaceIdle
  /\ LoopIdle
  /\ AppIdle

NextCorrections == ApplyCorrections

SpecCorrections == InitCorrections /\ [][NextCorrections]_vars

(* reviewDrawing and generateDimensions on a reply of the remote service *)
InitReview ==
  /\ meshData = EmptyMesh
  /\ bbox = Box(50, 30, 20)
  /\ dimsIn = <<>>
  /\ pc = "reply"
  /\ edges3D = <<>>
  /\ classified = NoClass
  /\ view = NoView
  /\ datums = <<>>
  /\ dimensions = <<>>
  /\ maxPerView = 0
  /\ LayoutIdle
  /\ PlaceIdle
  /\ corrections = <<>>
  /\ aiResponse \in Replies
  /\ aiResult = <<>>
  /\ FaceIdle
  /\ LoopIdle
  /\ AppIdle

NextReview == ReviewDrawing \/ GenerateDimensions

SpecReview == InitReview /\ [][NextReview]_vars

----------------------------------------------------------------------------
(* Properties *)

(* the value of x rounded to the given number of decimals, counted in      *)
(* units of 10^-digits                                                     *)
Rounded(x, digits) ==
  LET P  == Pow10(digits)
      g  == GCD(P, x.d)
      Pr == P \div g
      dr == x.d \div g
  IN  Sign(x.n) * ((2 * Abs(x.n) * Pr + dr) \div (2 * dr))

RoundedPoint(a) == <<Rounded(a[1], 6), Rounded(a[2], 6), Rounded(a[3], 6)>>

RoundedPair(a, b) == {RoundedPoint(a), RoundedPoint(b)}

AllSides(mesh) == {<<t, k>> : t \in 0..(NumTriangles(mesh) - 1), k \in 1..3}

SidePair(mesh, s) ==
  LET side == TriangleSides(mesh, s[1])[s[2]] IN RoundedPair(side.a, side.b)

RECURSIVE SumFaces(_, _)
SumFaces(es, k) == IF k = 0 THEN 0 ELSE SumFaces(es, k - 1) + Len(es[k].faces)

(* C1: after extractEdges, every unordered pair of endpoint positions,     *)
(* compared after rounding to 6 decimals, that some triangle side joins    *)
(* appears as exactly one edge, whose faces list has one entry per         *)
(* triangle side joining that pair; all faces lists together hold 3        *)
(* entries per triangle.                                                   *)
ClaimC1 ==
  pc = "edges" =>
    /\ \A s \in AllSides(meshData) :
         LET p == SidePair(meshData, s)
             E == {i \in 1..Len(edges3D) : RoundedPair(edges3D[i].v1, edges3D[i].v2) = p}
         IN  /\ Cardinality(E) = 1
             /\ \A i \in E :
                  Len(edges3D[i].faces)
                    = Cardinality({s2 \in AllSides(meshData) : SidePair(meshData, s2) = p})
    /\ SumFaces(edges3D, Len(edges3D)) = 3 * NumTriangles(meshData)

(* C2: an edge with exactly 1 adjacent triangle is classified silhouette   *)
(* and an edge with more than 2 adjacent triangles is classified internal, *)
(* for every mesh and view direction.                                      *)
TheoremC2 ==
  pc = "classified" =>
    /\ Len(classified.edge.faces) = 1 => classified.result = "silhouette"
    /\ Len(classified.edge.faces) > 2 => classified.result = "internal"

WitnessC2 ==
  /\ pc = "classified"
  /\ Cardinality({classified.edge.faces[i] : i \in 1..Len(classified.edge.faces)}) > 2
  /\ classified.result = "internal"

(* C3: classifying an edge with faces [f1, f2] gives the same result as    *)
(* classifying it with faces [f2, f1].                                     *)
TheoremC3 ==
  (pc = "classified" /\ Len(classified.edge.faces) = 2) =>
    classifyEdge([classified.edge EXCEPT
                    !.faces = <<classified.edge.faces[2], classified.edge.faces[1]>>],
                 meshData, classified.viewDir)
      = classified.result

WitnessC3 ==
  /\ pc = "classified"
  /\ Len(classified.edge.faces) = 2
  /\ classified.edge.faces[1] # classified.edge.faces[2]
  /\ classified.result = "silhouette"

(* C4: for an edge with exactly 2 adjacent triangles, with normals n1, n2  *)
(* and d1 = n1.viewDir, d2 = n2.viewDir: the result is silhouette when d1  *)
(* and d2 have opposite sign; otherwise, when n1.n2 < 0.9, it is visible   *)
(* if d1 > 0 and d2 > 0 and hidden if both faces face away; and it is      *)
(* internal when n1.n2 >= 0.9 and both faces face the same way.            *)
TheoremC4 ==
  (pc = "classified" /\ Len(classified.edge.faces) = 2) =>
    LET n1 == FaceNormal(meshData, classified.edge.faces[1])
        n2 == FaceNormal(meshData, classified.edge.faces[2])
        d1 == vec3Dot(n1, classified.viewDir)
        d2 == vec3Dot(n2, classified.viewDir)
        opposite == Lt(Mul(d1, d2), I(0))
        toward   == Gt(d1, I(0)) /\ Gt(d2, I(0))
        away     == Lt(d1, I(0)) /\ Lt(d2, I(0))
        sharp    == Lt(vec3Dot(n1, n2), Num(9, 10))
    IN  /\ opposite => classified.result = "silhouette"
        /\ (~opposite /\ sharp /\ toward) => classified.result = "visible"
        /\ (~opposite /\ sharp /\ away) => classified.result = "hidden"
        /\ (~sharp /\ (toward \/ away)) => classified.result = "internal"

WitnessC4 ==
  /\ pc = "classified"
  /\ Len(classified.edge.faces) = 2
  /\ classified.result = "visible"

(* C5: for each of the six canonical views the basis of projectPoint,      *)
(* right = normalize(up x viewDir) and up' = normalize(viewDir x right),   *)
(* is orthonormal together with viewDir.                                   *)
TheoremC5 ==
  view.type \in ViewTypes =>
    LET viewDir == VIEW_DIRECTIONS[view.type]
        right   == ProjRight(viewDir, VIEW_UP[view.type])
        up      == ProjUp(viewDir, VIEW_UP[view.type])
    IN  /\ vec3Dot(right, up) = I(0)
        /\ vec3Dot(right, viewDir) = I(0)
        /\ vec3Dot(up, viewDir) = I(0)
        /\ vec3Dot(right, right) = I(1)
        /\ vec3Dot(up, up) = I(1)
        /\ vec3Dot(viewDir, viewDir) = I(1)

WitnessC5 ==
  /\ pc = "view"
  /\ view.type = "top"
  /\ Len(view.edges) > 0

AbsDot(n1, n2) == MathAbs(vec3Dot(n1, n2))

DatumsDone == pc \in {"datums", "dims"}

(* C6: in every result of selectDatums the ids are A, B, C in this order   *)
(* (so C only with B, and one datum per id); if B is present then          *)
(* |A.normal . B.normal| < 0.1, and if C is present then                   *)
(* |A.normal . C.normal| < 0.1 and |B.normal . C.normal| < 0.1.            *)
TheoremC6 ==
  DatumsDone =>
    /\ Len(datums) <= 3
    /\ \A i \in 1..Len(datums) : datums[i].id = <<"A", "B", "C">>[i]
    /\ Len(datums) >= 2 => Lt(AbsDot(datums[1].normal, datums[2].normal), Num(1, 10))
    /\ Len(datums) >= 3 =>
         /\ Lt(AbsDot(datums[1].normal, datums[3].normal), Num(1, 10))
         /\ Lt(AbsDot(datums[2].normal, datums[3].normal), Num(1, 10))

WitnessC6 ==
  /\ pc = "datums"
  /\ Len(datums) = 3
  /\ \A i \in 1..3 : vec3Dot(datums[i].normal, datums[i].normal) = I(1)

(* C7: datum A is a planar face of maximal area; datum B is the            *)
(* largest-area face other than A that is near-perpendicular to A; datum C *)
(* is the largest-area face different from A and B that is                 *)
(* near-perpendicular to both; B or C is absent exactly when no such face  *)
(* exists.                                                                 *)
ClaimC7 ==
  DatumsDone =>
    LET F == extractPlanarFaces(meshData)
        N == 1..Len(F)
        Perp(i, j) == Lt(AbsDot(F[i].normal, F[j].normal), Num(1, 10))
        Largest(i, S) == \A k \in S : Le(F[k].area, F[i].area)
    IN  IF N = {} THEN datums = <<>>
        ELSE /\ Len(datums) >= 1
             /\ \E a \in N :
                  /\ datums[1] = AsDatum("A", F[a])
                  /\ Largest(a, N)
                  /\ LET QB == {k \in N \ {a} : Perp(k, a)}
                     IN  IF QB = {} THEN Len(datums) = 1
                         ELSE /\ Len(datums) >= 2
                              /\ \E b \in QB :
                                   /\ datums[2] = AsDatum("B", F[b])
                                   /\ Largest(b, QB)
                                   /\ LET QC == {k \in N \ {a, b} : Perp(k, a) /\ Perp(k, b)}
                                      IN  IF QC = {} THEN Len(datums) = 2
                                          ELSE /\ Len(datums) = 3
                                               /\ \E c \in QC :
                                                    /\ datums[3] = AsDatum("C", F[c])
                                                    /\ Largest(c, QC)

(* C8: every datum returned by selectDatums has a unit-length normal.      *)
ClaimC8 ==
  DatumsDone =>
    \A i \in 1..Len(datums) : vec3Dot(datums[i].normal, datums[i].normal) = I(1)

ZeroArea(mesh, t) ==
  LET f == TriangleVertices(mesh, t)
  IN  vec3Cross(vec3Sub(f[2], f[1]), vec3Sub(f[3], f[1])) = <<I(0), I(0), I(0)>>

Degenerate(mesh) == \A t \in 0..(NumTriangles(mesh) - 1) : ZeroArea(mesh, t)

(* C9: a mesh with no triangles, or with zero-area triangles only, gives   *)
(* no edges in the projected view, no datums and no dimensions.            *)
ClaimC9 ==
  Degenerate(meshData) =>
    /\ pc \in {"view", "datums", "dims"} => view.edges = <<>>
    /\ DatumsDone => datums = <<>>
    /\ pc = "dims" => dimensions = <<>>

RoundedKey(dim) == <<dim.view, dim.type, Rounded(dim.value, 1)>>

(* the indices of the first occurrence of each key, in increasing order *)
RECURSIVE FirstOccurrences(_, _)
FirstOccurrences(dims, k) ==
  IF k = 0 THEN <<>>
  ELSE IF \E j \in 1..(k - 1) : RoundedKey(dims[j]) = RoundedKey(dims[k])
       THEN FirstOccurrences(dims, k - 1)
       ELSE Append(FirstOccurrences(dims, k - 1), dims[k])

Count(dims, d) == Cardinality({i \in 1..Len(dims) : dims[i] = d})

Elements(dims) == {dims[i] : i \in 1..Len(dims)}

(* C11: after filterEssentialDimensions(dimsIn, N) every view has at most  *)
(* N dimensions in the output, and the output holds every dimension no     *)
(* more often than the input does.                                         *)
TheoremC11 ==
  pc = "filtered" =>
    /\ \A v \in ViewTypes : Len(DimsOfView(dimensions, v)) <= maxPerView
    /\ \A d \in Elements(dimensions) : Count(dimensions, d) <= Count(dimsIn, d)

(* a view of the input had more dimensions than the cap and some were kept *)
WitnessC11 ==
  /\ pc = "filtered"
  /\ \E v \in ViewTypes :
       /\ Len(DimsOfView(dimsIn, v)) > maxPerView
       /\ Len(DimsOfView(dimensions, v)) = maxPerView
       /\ maxPerView > 0

(* the dimensions of the input that the filter dropped at least once *)
Dropped == {d \in Elements(dimsIn) : Count(dimensions, d) < Count(dimsIn, d)}

(* C12: within one view no critical dimension is dropped while a           *)
(* non-critical one is kept, and no dropped dimension has a larger value   *)
(* than a kept one of the same criticality.                                *)
TheoremC12 ==
  pc = "filtered" =>
    \A d \in Dropped, e \in Elements(dimensions) :
      d.view = e.view =>
        /\ ~(d.is_critical /\ ~e.is_critical)
        /\ (d.is_critical = e.is_critical) => ~Gt(d.value, e.value)

(* a critical dimension was kept although a dropped one had a larger      *)
(* value, and a dropped one had a smaller value than a kept one of the    *)
(* same criticality                                                        *)
WitnessC12 ==
  /\ pc = "filtered"
  /\ \E d \in Dropped, e \in Elements(dimensions) :
       d.view = e.view /\ e.is_critical /\ ~d.is_critical /\ Gt(d.value, e.value)
  /\ \E d \in Dropped, e \in Elements(dimensions) :
       d.view = e.view /\ e.is_critical = d.is_critical /\ Lt(d.value, e.value)

(* the extents of the bounding box that a view shows: across, then upward *)
ShownExtents ==
  [ front |-> <<bbox.width, bbox.height>>,
    top   |-> <<bbox.width, bbox.depth>>,
    right |-> <<bbox.depth, bbox.height>> ]

(* dimension d is the placed form of candidate c *)
PlacedFrom(d, c) ==
  /\ d.value = c.value
  /\ d.label = c.label
  /\ d.view = c.viewType
  /\ IF c.direction = "horizontal"
     THEN d.position.start_y = d.position.end_y
     ELSE d.position.start_x = d.position.end_x

(* C13: for the front, top and right views calculateOverallDimensions      *)
(* returns a horizontal candidate for the extent shown across and a        *)
(* vertical candidate for the extent shown upward, both of priority 100,   *)
(* and each is placed as a Dimension with is_critical = TRUE.              *)
TheoremC13 ==
  (pc = "dims" /\ view.type \in DOMAIN ShownExtents) =>
    LET cs == calculateOverallDimensions(bbox, view.type)
    IN  /\ Len(cs) = 2
        /\ cs[1].direction = "horizontal" /\ cs[1].value = ShownExtents[view.type][1]
        /\ cs[2].direction = "vertical" /\ cs[2].value = ShownExtents[view.type][2]
        /\ \A i \in 1..2 :
             /\ cs[i].type = "overall"
             /\ cs[i].priority = 100
             /\ \E j \in 1..Len(dimensions) :
                  PlacedFrom(dimensions[j], cs[i]) /\ dimensions[j].is_critical

(* the dimensions of the top view of a part with edges hold the width of  *)
(* the box across and the depth of the box upward, both critical           *)
WitnessC13 ==
  /\ pc = "dims"
  /\ view.type = "top"
  /\ Len(view.edges) > 0
  /\ \E j \in 1..Len(dimensions) :
       /\ dimensions[j].value = bbox.depth
       /\ dimensions[j].position.start_x = dimensions[j].position.end_x
       /\ dimensions[j].is_critical
  /\ \E j \in 1..Len(dimensions) :
       /\ dimensions[j].value = bbox.width
       /\ dimensions[j].position.start_y = dimensions[j].position.end_y
       /\ dimensions[j].is_critical

(* the result of optimizeDimensionLayout in the run in which mcMove        *)
(* rejects every move                                                      *)
AllRejected ==
  CopyBack(layoutIn, initializeLayout(layoutIn, ViewBoundsOf(projectedViews),
                                      FullConfig(layoutConfig)))

(* C14: the result of optimizeDimensionLayout is determined by its         *)
(* dimensions, views and config: every run returns what the run returns    *)
(* in which every move is rejected.                                        *)
ClaimC14 ==
  (pc = "optimized" /\ Len(layoutDims) > 0) => dimensions = AllRejected

(* layout dimension ld was built from dimension dim *)
BuiltFrom(ld, dim) ==
  /\ ld.id = dim.id
  /\ ld.view = dim.view
  /\ ld.anchorStart = [x |-> dim.position.start_x, y |-> dim.position.start_y]
  /\ ld.anchorEnd = [x |-> dim.position.end_x, y |-> dim.position.end_y]

(* dimension d is dimension dim with its line at the position of ld *)
LineMovedTo(d, dim, ld) ==
  /\ [f \in DOMAIN d \ {"position"} |-> d[f]] = [f \in DOMAIN dim \ {"position"} |-> dim[f]]
  /\ IF ld.type = "horizontal"
     THEN /\ d.position.start_y = ld.position.y
          /\ d.position.end_y = ld.position.y
          /\ d.position.start_x = dim.position.start_x
          /\ d.position.end_x = dim.position.end_x
     ELSE /\ d.position.start_x = ld.position.x
          /\ d.position.end_x = ld.position.x
          /\ d.position.start_y = dim.position.start_y
          /\ d.position.end_y = dim.position.end_y

(* C15: optimizeDimensionLayout returns one dimension per input dimension  *)
(* in input order; a dimension whose view has bounds has its line at the   *)
(* final position of the layout dimension built from it, and a dimension   *)
(* whose view has no bounds is returned unchanged.                         *)
ClaimC15 ==
  (pc = "optimized" /\ Len(layoutDims) > 0) =>
    /\ Len(dimensions) = Len(layoutIn)
    /\ \A k \in 1..Len(layoutIn) :
         IF layoutIn[k].view \in DOMAIN ViewBoundsOf(projectedViews)
         THEN \E i \in 1..Len(layoutDims) :
                /\ BuiltFrom(layoutDims[i], layoutIn[k])
                /\ LineMovedTo(dimensions[k], layoutIn[k], layoutDims[i])
         ELSE dimensions[k] = layoutIn[k]

(* C16: the layout optimizer starts on the output of the placer, and Dedup *)
(* and Filter run on the output of the optimizer.                          *)
ClaimC16 ==
  [][ /\ (pc # "anneal" /\ pc' \in {"anneal", "optimized"}) => pc = "generated"
      /\ (pc' = "deduped") => pc = "optimized" ]_vars

(* coolingRate to the power k *)
RECURSIVE CooledBy(_, _)
CooledBy(rate, k) == IF k = 0 THEN I(1) ELSE Mul(CooledBy(rate, k - 1), rate)

(* C20: when a sweep of simulatedAnnealing ends, every layout dimension    *)
(* was selected for exactly one move; the temperature is 1.0 times 0.95    *)
(* to the number of sweeps completed; the run ends after maxIterations     *)
(* sweeps.                                                                 *)
ClaimC20 ==
  /\ (pc = "anneal" /\ moves = Len(layoutDims)) =>
       \A i \in 1..Len(layoutDims) : picks[i] = 1
  /\ (pc = "anneal") =>
       /\ temperature = Mul(I(1), CooledBy(Num(95, 100), iter))
       /\ iter <= layoutConfig.maxIterations
  /\ (pc = "optimized" /\ Len(layoutDims) > 0) => iter = layoutConfig.maxIterations

(* the number of candidates that go before candidate i when cs is put in   *)
(* descending order of priority with ties in input order                   *)
Rank(cs, i) ==
  Cardinality({h \in 1..Len(cs) :
                 \/ cs[h].priority > cs[i].priority
                 \/ cs[h].priority = cs[i].priority /\ h < i})

Placeable(cs) == {i \in 1..Len(cs) : cs[i].type # "datum-reference"}

(* the placeable candidates that go before candidate i *)
PlacedBefore(cs, i) == {h \in Placeable(cs) : Rank(cs, h) < Rank(cs, i)}

(* the stacking distance of the candidate that is the k-th of its direction *)
StackDistance(k) ==
  Add(IF "dimensionOffset" \in DOMAIN placeOptions THEN placeOptions.dimensionOffset
      ELSE I(10),
      Mul(I(k), IF "stackingOffset" \in DOMAIN placeOptions
                THEN placeOptions.stackingOffset ELSE I(8)))

(* C17: placeDimensions returns one Dimension per candidate that is not a  *)
(* datum reference, in descending order of priority with ties in input     *)
(* order; the k-th horizontal one has start_y = end_y = minY - (offset +   *)
(* k * stacking) and the k-th vertical one has start_x = end_x = maxX +    *)
(* (offset + k * stacking), datum references not counted.                  *)
TheoremC17 ==
  pc = "placed" =>
    /\ Len(dimensions) = Cardinality(Placeable(placeCandidates))
    /\ \A i \in Placeable(placeCandidates) :
         LET d == dimensions[1 + Cardinality(PlacedBefore(placeCandidates, i))]
             k == Cardinality({h \in PlacedBefore(placeCandidates, i) :
                                 placeCandidates[h].direction = placeCandidates[i].direction})
         IN  /\ d.label = placeCandidates[i].label
             /\ IF placeCandidates[i].direction = "horizontal"
                THEN /\ d.position.start_y = Sub(view.bounds.minY, StackDistance(k))
                     /\ d.position.end_y = Sub(view.bounds.minY, StackDistance(k))
                ELSE /\ d.position.start_x = Add(view.bounds.maxX, StackDistance(k))
                     /\ d.position.end_x = Add(view.bounds.maxX, StackDistance(k))

(* a horizontal candidate of lower priority came first in the input, a     *)
(* datum reference second and a horizontal candidate of higher priority    *)
(* third: the first was placed second, in stacking slot 1                  *)
WitnessC17 ==
  /\ pc = "placed"
  /\ Len(placeCandidates) = 3
  /\ placeCandidates[1].priority < placeCandidates[3].priority
  /\ placeCandidates[2].type = "datum-reference"
  /\ placeCandidates[1].direction = "horizontal"
  /\ placeCandidates[3].direction = "horizontal"
  /\ Len(dimensions) = 2
  /\ dimensions[2].label = placeCandidates[1].label
  /\ dimensions[2].position.start_y = Sub(view.bounds.minY, StackDistance(1))

(* correction c has an action and the field that the action needs *)
Effective(c) ==
  \/ c.action = "delete"
  \/ c.action = "modify" /\ "suggestedValue" \in DOMAIN c
  \/ c.action \in {"move", "reposition"} /\ "newPosition" \in DOMAIN c

TargetIds(cs) == {cs[k].dimensionId : k \in {h \in 1..Len(cs) : Effective(cs[h])}}

Untargeted(dims, cs) == SelectSeq(dims, LAMBDA d : d.id \notin TargetIds(cs))

CountId(dims, id) == Cardinality({i \in 1..Len(dims) : dims[i].id = id})

Deletes(cs, id) ==
  Cardinality({k \in 1..Len(cs) : cs[k].action = "delete" /\ cs[k].dimensionId = id})

(* dimension e is dimension d, but for a value that a modify correction    *)
(* for its id suggests and line ends that a move or reposition correction  *)
(* for its id gives                                                        *)
CorrectedFrom(e, d, cs) ==
  /\ DOMAIN e = DOMAIN d
  /\ \A f \in DOMAIN d \ {"value", "position"} : e[f] = d[f]
  /\ \/ e.value = d.value
     \/ \E k \in 1..Len(cs) :
          /\ cs[k].action = "modify" /\ cs[k].dimensionId = d.id
          /\ "suggestedValue" \in DOMAIN cs[k]
          /\ e.value = cs[k].suggestedValue
  /\ \/ e.position = d.position
     \/ \E k \in 1..Len(cs) :
          /\ cs[k].action \in {"move", "reposition"} /\ cs[k].dimensionId = d.id
          /\ "newPosition" \in DOMAIN cs[k]
          /\ DOMAIN e.position = DOMAIN d.position
          /\ \A f \in DOMAIN d.position :
               e.position[f] = IF f \in {"start_x", "start_y", "end_x", "end_y"}
                               THEN cs[k].newPosition[f] ELSE d.position[f]

(* what a call applyCorrections(in, cs) that returns out may have changed *)
OnlyTargetsChanged(in, out, cs) ==
  /\ Untargeted(out, cs) = Untargeted(in, cs)
  /\ \E from \in [1..Len(out) -> 1..Len(in)] :
       /\ \A i, h \in 1..Len(out) : i < h => from[i] < from[h]
       /\ \A i \in 1..Len(out) : CorrectedFrom(out[i], in[from[i]], cs)
  /\ \A id \in {in[i].id : i \in 1..Len(in)} :
       CountId(out, id) = IF CountId(in, id) > Deletes(cs, id)
                          THEN CountId(in, id) - Deletes(cs, id) ELSE 0
  /\ (\A k \in 1..Len(cs) : ~Effective(cs[k]) \/ CountId(in, cs[k].dimensionId) = 0)
       => out = in

(* C18: a call of applyCorrections leaves the array handed in as it was;   *)
(* the array returned holds the dimensions handed in, in their order,      *)
(* without one dimension per delete for its id, with values changed only   *)
(* to what a modify for the id suggests and line ends changed only to      *)
(* what a move or reposition for the id gives; dimensions whose id no      *)
(* correction targets are unchanged, and so is the whole list when no      *)
(* correction has both an effect and a matching id.                        *)
TheoremC18 ==
  [][ pc' = "corrected" =>
        /\ dimsIn' = dimsIn
        /\ OnlyTargetsChanged(dimsIn, dimensions', corrections) ]_vars

(* of two dimensions with one id the first was deleted and the second got  *)
(* the suggested value, next to a dimension that no correction targets     *)
WitnessC18 ==
  /\ pc = "corrected"
  /\ Len(dimsIn) = 3
  /\ Len(corrections) = 2
  /\ corrections[1].action = "delete"
  /\ corrections[2].action = "modify"
  /\ Len(dimensions) = 2
  /\ \E i \in 1..2 : dimensions[i].value = I(42) /\ dimensions[i] \notin Elements(dimsIn)
  /\ \E i \in 1..2 : dimensions[i].id \notin TargetIds(corrections)


(* the response text has no JSON object, or the object is not valid JSON *)
Malformed(text) ==
  \/ jsonMatch(text) = <<>>
  \/ JsonParseThrows(jsonMatch(text))

(* reviewDrawing read the response text of the reply *)
ReviewReadText ==
  /\ pc = "review-returned"
  /\ aiResponse.kind = "response" /\ aiResponse.status = 200
  /\ aiResponse.success /\ aiResponse.error = ""

(* generateDimensions read the response text of the reply *)
GenerateReadText ==
  /\ pc = "generate-returned"
  /\ aiResponse.kind = "response" /\ aiResponse.status = 200
  /\ (aiResponse.success \/ aiResponse.error = "")

(* C19, generateDimensions alone: a response text without a JSON object or *)
(* with invalid JSON gives success = false and an error that says so       *)
GenerateReportsMalformed ==
  GenerateReadText /\ Malformed(aiResponse.text) =>
    /\ aiResult.success = FALSE
    /\ aiResult.error \in { "Could not parse dimensions from AI response",
                            "Invalid JSON in AI response" }

(* C19: whenever the response text of the service holds no JSON object or  *)
(* holds invalid JSON, generateDimensions and reviewDrawing return         *)
(* success = false, not a default score, acceptance or empty success       *)
ClaimC19 ==
  (ReviewReadText \/ GenerateReadText) /\ Malformed(aiResponse.text) =>
    aiResult.success = FALSE


(* layout dimension b is layout dimension a but for its position *)
SameButPosition(a, b) ==
  [b EXCEPT !.position = a.position] = a

(* from a to b only the coordinate of the position changed along which the *)
(* dimension line may move                                                 *)
MovedAlongAxis(a, b) ==
  /\ SameButPosition(a, b)
  /\ a.type = "horizontal" => b.position.x = a.position.x
  /\ a.type # "horizontal" => b.position.y = a.position.y

(* C21: every Monte Carlo move changes the position of at most one layout  *)
(* dimension and only along its allowed axis (position.y of a horizontal,  *)
(* position.x of a vertical dimension); a rejected move leaves every       *)
(* position as it was; no move changes anchors, orientation, view, size or *)
(* offset index                                                            *)
TheoremC21 ==
  [][moves' = moves + 1 =>
       /\ Len(layoutDims') = Len(layoutDims)
       /\ Cardinality({k \in 1..Len(layoutDims) :
                         layoutDims'[k] # layoutDims[k]}) <= 1
       /\ \A k \in 1..Len(layoutDims) :
            MovedAlongAxis(layoutDims[k], layoutDims'[k])
       /\ ~accepted' => layoutDims' = layoutDims]_vars

(* a sweep in which a move was rejected after a move was accepted that     *)
(* left a vertical dimension away from where initializeLayout put it       *)
WitnessC21 ==
  /\ pc = "anneal"
  /\ moves = 2
  /\ ~accepted
  /\ layoutDims # initializeLayout(layoutIn, ViewBoundsOf(projectedViews),
                                   FullConfig(layoutConfig))
  /\ \E k \in 1..Len(layoutDims) :
       /\ layoutDims[k].type = "vertical"
       /\ layoutDims[k] #
            initializeLayout(layoutIn, ViewBoundsOf(projectedViews),
                             FullConfig(layoutConfig))[k]


(* the coordinate of the dimension line *)
LinePosition(ld) ==
  IF ld.type = "horizontal" THEN ld.position.y ELSE ld.position.x

(* the spacing term the claim gives for two lines at distance s *)
ClaimedSpacingTerm(s, config) ==
  IF Ge(s, I(0)) /\ Lt(s, config.minDimensionSpacing)
  THEN Mul(WEIGHTS.spacing, Sub(config.minDimensionSpacing, s))
  ELSE I(0)

(* the sum of the claimed terms over the other dimensions of the same view *)
(* and orientation, up to index k                                          *)
RECURSIVE ClaimedSpacing(_, _, _, _)
ClaimedSpacing(index, ldims, k, config) ==
  IF k = 0 THEN I(0)
  ELSE Add(ClaimedSpacing(index, ldims, k - 1, config),
           IF /\ k # index
              /\ ldims[k].view = ldims[index].view
              /\ ldims[k].type = ldims[index].type
           THEN ClaimedSpacingTerm(MathAbs(Sub(LinePosition(ldims[index]),
                                               LinePosition(ldims[k]))), config)
           ELSE I(0))

(* what the spacing penalty adds to the energy returned: the energy less   *)
(* the energy under a threshold of 0, which leaves no spacing penalty      *)
SpacingPart ==
  Sub(energy.value,
      calculateEnergy(energy.index, layoutDims,
                      GlobalBounds(projectedViews, Len(projectedViews)),
                      [FullConfig(layoutConfig) EXCEPT !.minDimensionSpacing = I(0)]))

(* C22: for every other dimension of the same view and orientation whose   *)
(* line is at distance s with 0 <= s < minDimensionSpacing the energy      *)
(* includes 20 * (minDimensionSpacing - s), and other pairs add no spacing *)
(* term                                                                    *)
ClaimC22 ==
  pc = "energy" =>
    SpacingPart = ClaimedSpacing(energy.index, layoutDims, Len(layoutDims),
                                 FullConfig(layoutConfig))

(* C22 but for lines at distance 0: the terms for 0 < s < the threshold *)
SpacingAboveZero ==
  pc = "energy" /\ (\A k \in 1..Len(layoutDims) :
                      k # energy.index /\ layoutDims[k].view = layoutDims[energy.index].view
                        /\ layoutDims[k].type = layoutDims[energy.index].type =>
                      LinePosition(layoutDims[k]) # LinePosition(layoutDims[energy.index]))
    => SpacingPart = ClaimedSpacing(energy.index, layoutDims, Len(layoutDims),
                                    FullConfig(layoutConfig))


(* the cross product, area and centroid of triangle t of the mesh *)
CrossOf(mesh, t) ==
  TriangleCross(TriangleVertices(mesh, t)[1], TriangleVertices(mesh, t)[2],
                TriangleVertices(mesh, t)[3])

AreaOf(mesh, t) == TriangleArea(CrossOf(mesh, t))

CentroidOf(mesh, t) ==
  TriangleCenter(TriangleVertices(mesh, t)[1], TriangleVertices(mesh, t)[2],
                 TriangleVertices(mesh, t)[3])

(* the sum of the areas of the first k member triangles *)
RECURSIVE SumOfAreas(_, _, _)
SumOfAreas(mesh, ts, k) ==
  IF k = 0 THEN I(0) ELSE Add(SumOfAreas(mesh, ts, k - 1), AreaOf(mesh, ts[k]))

(* the sum over the first k member triangles of area times coordinate c of *)
(* the centroid                                                            *)
RECURSIVE SumOfMoments(_, _, _, _)
SumOfMoments(mesh, ts, k, c) ==
  IF k = 0 THEN I(0)
  ELSE Add(SumOfMoments(mesh, ts, k - 1, c),
           Mul(AreaOf(mesh, ts[k]), CentroidOf(mesh, ts[k])[c]))

AreaWeightedCentroid(mesh, ts) ==
  [c \in 1..3 |-> Div(SumOfMoments(mesh, ts, Len(ts), c),
                      SumOfAreas(mesh, ts, Len(ts)))]

(* the area of every planar face is the sum of the areas of its triangles *)
AreaIsSum ==
  pc = "faces" =>
    \A f \in 1..Len(planarFaces) :
      planarFaces[f].area =
        SumOfAreas(meshData, planarFaces[f].triangles, Len(planarFaces[f].triangles))

(* C23: the center of each planar face is the area-weighted average of the *)
(* centroids of its member triangles, and its area is the sum of their     *)
(* areas (faces of area 0 have no such average)                            *)
ClaimC23 ==
  pc = "faces" =>
    \A f \in 1..Len(planarFaces) :
      /\ planarFaces[f].area =
           SumOfAreas(meshData, planarFaces[f].triangles,
                      Len(planarFaces[f].triangles))
      /\ Gt(planarFaces[f].area, I(0)) =>
           planarFaces[f].center =
             AreaWeightedCentroid(meshData, planarFaces[f].triangles)

(* the faces that hold triangle t *)
FacesOf(t) ==
  {f \in 1..Len(planarFaces) :
     \E k \in 1..Len(planarFaces[f].triangles) : planarFaces[f].triangles[k] = t}

(* triangles s and t are not degenerate and lie in one plane: the normals  *)
(* are parallel or anti-parallel and a corner of t is in the plane of s    *)
SamePlane(mesh, s, t) ==
  /\ CrossOf(mesh, s) # <<I(0), I(0), I(0)>>
  /\ CrossOf(mesh, t) # <<I(0), I(0), I(0)>>
  /\ vec3Cross(CrossOf(mesh, s), CrossOf(mesh, t)) = <<I(0), I(0), I(0)>>
  /\ vec3Dot(CrossOf(mesh, s),
             vec3Sub(TriangleVertices(mesh, t)[1], TriangleVertices(mesh, s)[1])) = I(0)

(* every triangle is in exactly one planar face, once *)
OneFaceEach ==
  pc = "faces" =>
    \A t \in 0..(NumTriangles(meshData) - 1) :
      /\ Cardinality(FacesOf(t)) = 1
      /\ \A f \in FacesOf(t) :
           Cardinality({k \in 1..Len(planarFaces[f].triangles) :
                          planarFaces[f].triangles[k] = t}) = 1

(* C24: every triangle belongs to exactly one planar face, and two         *)
(* non-degenerate triangles of one plane are in the same planar face,      *)
(* whatever their order, winding and the distance of the plane from the    *)
(* origin                                                                  *)
ClaimC24 ==
  pc = "faces" =>
    /\ \A t \in 0..(NumTriangles(meshData) - 1) : Cardinality(FacesOf(t)) = 1
    /\ \A s, t \in 0..(NumTriangles(meshData) - 1) :
         SamePlane(meshData, s, t) => FacesOf(s) = FacesOf(t)

(* C24 for triangles of the same winding *)
SameWindingGrouped ==
  pc = "faces" =>
    \A s, t \in 0..(NumTriangles(meshData) - 1) :
      SamePlane(meshData, s, t)
        /\ Gt(vec3Dot(CrossOf(meshData, s), CrossOf(meshData, t)), I(0))
      => FacesOf(s) = FacesOf(t)


(* the levels (coordinate c of the start point) of the visible edges of    *)
(* the view that run along the other axis                                  *)
VisibleLevels(c) ==
  { view.edges[i].start[c] : i \in { j \in 1..Len(view.edges) :
      /\ view.edges[j].type = "visible"
      /\ Lt(MathAbs(Sub(view.edges[j].start[c], view.edges[j].end[c])),
            Num(1, 10)) } }

(* the pairs of adjacent levels that are more than 1 apart *)
Steps(c) ==
  { <<a, b>> \in VisibleLevels(c) \X VisibleLevels(c) :
      /\ Lt(a, b)
      /\ \A m \in VisibleLevels(c) : ~(Lt(a, m) /\ Lt(m, b))
      /\ Gt(Sub(b, a), I(1)) }

(* candidate k is the step candidate of the pair of levels p in coordinate *)
(* c, anchored beside (c = 2) or below (c = 1) the view                    *)
IsStepOf(k, p, c) ==
  /\ placeCandidates[k].direction = (IF c = 2 THEN "vertical" ELSE "horizontal")
  /\ placeCandidates[k].value = Sub(p[2], p[1])
  /\ placeCandidates[k].startPoint =
       (IF c = 2 THEN <<Add(view.bounds.maxX, I(5)), p[1]>>
        ELSE <<p[1], Sub(view.bounds.minY, I(5))>>)
  /\ placeCandidates[k].endPoint =
       (IF c = 2 THEN <<Add(view.bounds.maxX, I(5)), p[2]>>
        ELSE <<p[2], Sub(view.bounds.minY, I(5))>>)

(* C25: calculateFeatureDimensions emits exactly one step candidate (type  *)
(* feature, priority 50) for each pair of adjacent levels of visible       *)
(* axis-aligned edges more than 1 apart, with the level difference as      *)
(* value and anchored at bounds.maxX + 5 or bounds.minY - 5, and no other  *)
(* candidate; hidden edges contribute no level                             *)
TheoremC25 ==
  pc = "features" =>
    /\ \A k \in 1..Len(placeCandidates) :
         /\ placeCandidates[k].type = "feature"
         /\ placeCandidates[k].priority = 50
         /\ placeCandidates[k].viewType = view.type
         /\ \E c \in 1..2 : \E p \in Steps(c) : IsStepOf(k, p, c)
    /\ \A c \in 1..2 : \A p \in Steps(c) :
         Cardinality({k \in 1..Len(placeCandidates) : IsStepOf(k, p, c)}) = 1

(* a view with a hidden edge at a level of its own, two levels 1 apart and *)
(* two levels more than 1 apart, and the one step candidate emitted        *)
WitnessC25 ==
  /\ pc = "features"
  /\ \E i \in 1..Len(view.edges) :
       view.edges[i].type = "hidden" /\ view.edges[i].start[2] \notin VisibleLevels(2)
  /\ {I(0), I(1), I(3)} \subseteq VisibleLevels(2)
  /\ Len(placeCandidates) = 1
  /\ placeCandidates[1].value = I(2)


(* generateProjectedView has returned the view *)
ViewDone == pc = "view"

(* the projection of end point v of a 3D edge into the view *)
InView(v) == projectPoint(v, VIEW_DIRECTIONS[view.type], VIEW_UP[view.type])

(* the 3D edge is internal in the view *)
IsInternal(edge) ==
  classifyEdge(edge, meshData, VIEW_DIRECTIONS[view.type]) = "internal"

(* the projection of the 3D edge is shorter than 0.001 *)
IsShort(edge) == vec2DistanceBelow(InView(edge.v1), InView(edge.v2), Num(1, 1000))

(* the 3D edges of es that are neither internal nor short in the view *)
Surviving(es) == {k \in 1..Len(es) : ~IsInternal(es[k]) /\ ~IsShort(es[k])}

(* the edges of the view are the projections of the surviving 3D edges *)
OnlySurvivors(es) ==
  /\ Len(view.edges) = Cardinality(Surviving(es))
  /\ \A i \in 1..Len(view.edges) :
       /\ ~vec2DistanceBelow(view.edges[i].start, view.edges[i].end, Num(1, 1000))
       /\ \E k \in Surviving(es) :
            /\ view.edges[i].start = InView(es[k].v1)
            /\ view.edges[i].end = InView(es[k].v2)

(* point q is within the bounds of the view *)
Enclosed(q) ==
  /\ Le(view.bounds.minX, q[1]) /\ Le(q[1], view.bounds.maxX)
  /\ Le(view.bounds.minY, q[2]) /\ Le(q[2], view.bounds.maxY)

(* C26: in every view returned by generateProjectedView no internal edge   *)
(* and no edge with a projected length below 0.001 is among the edges, the *)
(* bounds enclose both end points of every edge, scale * max(width,        *)
(* height) = 100 when the view has an edge, and scale = 1 when it has none *)
TheoremC26 ==
  ViewDone =>
    /\ OnlySurvivors(extractEdges(meshData))
    /\ \A i \in 1..Len(view.edges) :
         Enclosed(view.edges[i].start) /\ Enclosed(view.edges[i].end)
    /\ Len(view.edges) > 0 =>
         Mul(view.scale, MathMax(Sub(view.bounds.maxX, view.bounds.minX),
                                 Sub(view.bounds.maxY, view.bounds.minY))) = I(100)
    /\ Len(view.edges) = 0 => view.scale = I(1)

(* a view with edges of a mesh that has an internal edge and an edge that  *)
(* projects to a point                                                     *)
WitnessC26 ==
  /\ pc = "view"
  /\ Len(view.edges) > 0
  /\ \E k \in 1..Len(extractEdges(meshData)) : IsInternal(extractEdges(meshData)[k])
  /\ \E k \in 1..Len(extractEdges(meshData)) :
       /\ IsShort(extractEdges(meshData)[k])
       /\ extractEdges(meshData)[k].v1 # extractEdges(meshData)[k].v2


(* the loop is running or has returned *)
InLoop == pc \in {"loop", "loop-returned"}

(* the counts of the loop: one review per pass, at most maxIterations      *)
(* passes, and no review but the last one leaves the loop                  *)
LoopCounts ==
  InLoop =>
    /\ Len(reviews) = iteration
    /\ iteration <= loopConfig.maxIterations
    /\ \A k \in 1..(Len(reviews) - 1) : ~LoopBreaks(reviews[k], loopConfig.acceptableScore)
    /\ pc = "loop-returned" =>
         /\ loopResult.iterationCount = Len(loopResult.reviews)
         /\ loopResult.iterationCount <= loopConfig.maxIterations
         /\ loopResult.reviews = reviews

(* a pass whose review is accepted, or has issues and no corrections,      *)
(* returns; currentDimensions changes only after a review that was not     *)
(* accepted                                                                *)
LoopSteps ==
  pc = "loop" /\ iteration' = iteration + 1 =>
    /\ (\/ reviews'[iteration'].isAcceptable /\ reviews'[iteration'].overallScore >= loopConfig.acceptableScore
        \/ /\ Len(reviews'[iteration'].corrections) = 0
           /\ Len(reviews'[iteration'].issues) > 0)
         => pc' = "loop-returned"
    /\ loopDims' # loopDims =>
         ~(reviews'[iteration'].isAcceptable /\ reviews'[iteration'].overallScore >= loopConfig.acceptableScore)

(* C27: reviewAndCorrectLoop performs at most maxIterations reviews and    *)
(* always terminates; iterationCount = reviews.length <= maxIterations;    *)
(* the loop stops right after the first review that is acceptable with     *)
(* score >= acceptableScore or that reports issues and no corrections;     *)
(* corrections are applied only after a review that was not accepted       *)
TheoremC27 ==
  /\ []LoopCounts
  /\ [][LoopSteps]_vars
  /\ <>(pc = "loop-returned")

(* the loop returned after MaxLoop reviews, the last of which was applied  *)
(* and changed the dimensions                                              *)
WitnessC27 ==
  /\ pc = "loop-returned"
  /\ loopResult.iterationCount = MaxLoop
  /\ Len(loopResult.finalDimensions) < Len(dimsIn)

(* C28: on every exit path the returned finalSvg is the SVG generated from *)
(* the returned finalDimensions, also when the last iteration applied      *)
(* corrections                                                             *)
ClaimC28 ==
  pc = "loop-returned" =>
    loopResult.finalSvg = svgGenerator(loopResult.finalDimensions)

(* C28 on the exits by break after an accepted review or a review with     *)
(* issues and no corrections                                               *)
ConsistentOnBreak ==
  pc = "loop-returned" /\ Len(reviews) > 0
    /\ LoopBreaks(reviews[Len(reviews)], loopConfig.acceptableScore)
  => loopResult.finalSvg = svgGenerator(loopResult.finalDimensions)


(* C29: during one drawing generation runVisionReview performs at most 3   *)
(* review-and-correct rounds, also when every review is not acceptable,    *)
(* scores below 60 and has corrections; afterwards isReviewing and         *)
(* isGenerating are both false                                             *)
ClaimC29 ==
  /\ rounds <= 3
  /\ pc = "app-done" => ~isReviewing /\ ~isGenerating

(* the flags after a generation *)
FlagsReset == pc = "app-done" => ~isReviewing /\ ~isGenerating

(* a callback that captured a reviewIteration of 3 or more reviews once *)
OneRoundWhenCapturedThree == capturedIteration >= 3 => rounds <= 1

(* the fourth round, started from a fresh App *)
FourthRound == rounds = 4 /\ capturedIteration = 0 /\ reviewIteration = 4


(* no two dimensions of the list share an id *)
UniqueIds(dims) ==
  \A j, k \in 1..Len(dims) : dims[j].id = dims[k].id => j = k

(* C30: after generateAllDimensions over several views is flattened into   *)
(* one list, and after dedup, filter and optimize, no two dimensions share *)
(* the same id                                                             *)
ClaimC30 ==
  pc = "optimized" => UniqueIds(dimensions)

(* the ids are unique among the dimensions of one view *)
UniqueIdsPerView ==
  \A v \in ViewTypes \cup {"section"} : UniqueIds(DimsOfView(dimensions, v))

(* with a single projected view the ids of the final list are unique *)
UniqueIdsOfOneView ==
  (pc = "optimized" /\ Len(projectedViews) = 1) => UniqueIds(dimensions)

====
